---- MODULE Spec2Model ----
(***************************************************************************)
(* eval2otel: conversion of one evaluation record into a span, its span    *)
(* events and metric points (Eval2Otel / Eval2OtelConverter).              *)
(*                                                                         *)
(* JavaScript values are tagged records: [t |-> "undefined"],              *)
(* [t |-> "null"], [t |-> "string", s |-> <<chars>>], [t |-> "object",     *)
(* o |-> <<key/value pairs>>], [t |-> "number", ...].  Strings are         *)
(* sequences of one-character strings; record ids are sequences of UTF-16  *)
(* code units, because the sampling hash reads charCodeAt.                 *)
(***************************************************************************)
EXTENDS Integers, Sequences, FiniteSets, TLC

VARIABLES config, spanCount, eventCounts, lastCall, sample, provider, metrics, validation,
          cli

vars == <<config, spanCount, eventCounts, lastCall, sample, provider, metrics, validation, cli>>

Undef == [t |-> "undefined"]
NullV == [t |-> "null"]
Str(s) == [t |-> "string", s |-> s]
Obj(o) == [t |-> "object", o |-> o]
Num(n) == [t |-> "number", n |-> n]

Min(a, b) == IF a <= b THEN a ELSE b

(***************************************************************************)
(* Bounds of the model.                                                    *)
(***************************************************************************)
MaxIdLen == 4
MaxMsgs == 2
MaxChoices == 2
MaxSteps == 1
MaxChunks == 1
MaxCap == 2
MaxBatch == 2
MaxSpans == 2
MaxContentLength == 2
MaxFields == 2

(***************************************************************************)
(* 32-bit arithmetic.  A number v is kept as two limbs, v = hi * 2^16 + lo *)
(* with lo in 0..65535; hi is signed, so the same pair represents the      *)
(* exact double the JavaScript expression yields before it is wrapped.     *)
(***************************************************************************)
W16 == 2^16

Limbs(hi, lo) == [hi |-> hi, lo |-> lo]

\* ToInt32: the value of (x | 0) and of the operands of <<
ToInt32(x) == Limbs(((x.hi + (W16 \div 2)) % W16) - (W16 \div 2), x.lo)

\* ToUint32: the value of (x >>> 0)
ToUint32(x) == Limbs(x.hi % W16, x.lo)

\* exact addition of two doubles holding integers
Plus(x, y) ==
  LET l == x.lo + y.lo
  IN  Limbs(x.hi + y.hi + (l \div W16), l % W16)

\* (x << 5): shift of the int32 value, result wrapped to int32
Shl5(x) ==
  LET l == x.lo * 32
  IN  ToInt32(Limbs(ToInt32(x).hi * 32 + (l \div W16), l % W16))

\* norm <= sampleRate, both as multiples of 2^-32
LimbsLeq(x, y) == x.hi < y.hi \/ (x.hi = y.hi /\ x.lo <= y.lo)

(***************************************************************************)
(* Sampling rates: [t |-> "number", hi, lo] is the rate                    *)
(* (hi * 2^16 + lo) / 2^32, so 1.0 is hi = 2^16 and a negative rate has    *)
(* hi < 0.  For a real rate r in (0,1), norm <= r is the same comparison   *)
(* as norm <= floor(r * 2^32) / 2^32, so these rates lose nothing.         *)
(***************************************************************************)
Rate(hi, lo) == [t |-> "number", hi |-> hi, lo |-> lo]

RateOne == Rate(W16, 0)
RateZero == Rate(0, 0)
RateHalf == Rate(W16 \div 2, 0)

\* the hash loop of shouldCaptureContent, one character
RECURSIVE hashLoop(_, _, _)
hashLoop(id, i, hash) ==
  IF i > Len(id) THEN hash
  ELSE hashLoop(id, i + 1,
         ToInt32(Plus(Plus(Shl5(hash), hash), Limbs(0, id[i]))))

\* an unsigned read that forgets >>> 0 keeps the sign of the int32
normOf_signed(hash) == hash

normOf(hash) == ToUint32(hash)

rateAdmits(norm, sampleRate) == LimbsLeq(norm, Limbs(sampleRate.hi, sampleRate.lo))

\* the custom samplers of the model: constant ones, one that reads the
\* record it is given, and one that throws
contentSamplerResult(sampler, evalResult) ==
  CASE sampler = "true" -> TRUE
    [] sampler = "false" -> FALSE
    [] sampler = "ifError" -> evalResult.error
    [] OTHER -> FALSE

\* a sampler that is consulted only after the rate
shouldCaptureContent_rateFirst(cfg, evalResult) ==
  LET sampleRate == IF cfg.sampleContentRate.t = "undefined" THEN RateOne
                    ELSE cfg.sampleContentRate
  IN  IF cfg.captureContent # "true"
      THEN [threw |-> FALSE, value |-> FALSE, hashEvaluated |-> FALSE, samplerCalls |-> 0]
      ELSE IF sampleRate.hi >= W16
      THEN [threw |-> FALSE, value |-> TRUE, hashEvaluated |-> FALSE, samplerCalls |-> 0]
      ELSE IF sampleRate.hi < 0 \/ (sampleRate.hi = 0 /\ sampleRate.lo = 0)
      THEN [threw |-> FALSE, value |-> FALSE, hashEvaluated |-> FALSE, samplerCalls |-> 0]
      ELSE IF cfg.contentSampler # "undefined"
      THEN [threw |-> cfg.contentSampler = "throw",
            value |-> contentSamplerResult(cfg.contentSampler, evalResult),
            hashEvaluated |-> FALSE, samplerCalls |-> 1]
      ELSE [threw |-> FALSE,
            value |-> rateAdmits(normOf(hashLoop(evalResult.id, 1, Limbs(0, 5381))), sampleRate),
            hashEvaluated |-> TRUE, samplerCalls |-> 0]

\* the hash computed before the rate is looked at
shouldCaptureContent_eagerHash(cfg, evalResult) ==
  LET sampleRate == IF cfg.sampleContentRate.t = "undefined" THEN RateOne
                    ELSE cfg.sampleContentRate
      norm == normOf(hashLoop(evalResult.id, 1, Limbs(0, 5381)))
  IN  IF cfg.captureContent # "true"
      THEN [threw |-> FALSE, value |-> FALSE, hashEvaluated |-> FALSE, samplerCalls |-> 0]
      ELSE IF cfg.contentSampler # "undefined"
      THEN [threw |-> cfg.contentSampler = "throw",
            value |-> contentSamplerResult(cfg.contentSampler, evalResult),
            hashEvaluated |-> FALSE, samplerCalls |-> 1]
      ELSE [threw |-> FALSE,
            value |-> (sampleRate.hi >= W16) \/ rateAdmits(norm, sampleRate),
            hashEvaluated |-> TRUE, samplerCalls |-> 0]

\* a gate that reads the flag as "not explicitly false"
shouldCaptureContent_optOut(cfg, evalResult) ==
  LET sampleRate == IF cfg.sampleContentRate.t = "undefined" THEN RateOne
                    ELSE cfg.sampleContentRate
  IN  IF cfg.captureContent = "false"
      THEN [threw |-> FALSE, value |-> FALSE, hashEvaluated |-> FALSE, samplerCalls |-> 0]
      ELSE IF cfg.contentSampler # "undefined"
      THEN [threw |-> cfg.contentSampler = "throw",
            value |-> contentSamplerResult(cfg.contentSampler, evalResult),
            hashEvaluated |-> FALSE, samplerCalls |-> 1]
      ELSE IF sampleRate.hi >= W16
      THEN [threw |-> FALSE, value |-> TRUE, hashEvaluated |-> FALSE, samplerCalls |-> 0]
      ELSE IF sampleRate.hi < 0 \/ (sampleRate.hi = 0 /\ sampleRate.lo = 0)
      THEN [threw |-> FALSE, value |-> FALSE, hashEvaluated |-> FALSE, samplerCalls |-> 0]
      ELSE [threw |-> FALSE,
            value |-> rateAdmits(normOf(hashLoop(evalResult.id, 1, Limbs(0, 5381))), sampleRate),
            hashEvaluated |-> TRUE, samplerCalls |-> 0]

\* shouldCaptureContent: the record-level gate.  threw: the custom sampler
\* raised; hashEvaluated: the hash loop ran; samplerCalls: calls of the
\* custom sampler.
shouldCaptureContent(cfg, evalResult) ==
  LET sampleRate == IF cfg.sampleContentRate.t = "undefined" THEN RateOne
                    ELSE cfg.sampleContentRate
  IN  IF cfg.captureContent # "true"
      THEN [threw |-> FALSE, value |-> FALSE, hashEvaluated |-> FALSE, samplerCalls |-> 0]
      ELSE IF cfg.contentSampler # "undefined"
      THEN [threw |-> cfg.contentSampler = "throw",
            value |-> contentSamplerResult(cfg.contentSampler, evalResult),
            hashEvaluated |-> FALSE, samplerCalls |-> 1]
      ELSE IF sampleRate.hi >= W16
      THEN [threw |-> FALSE, value |-> TRUE, hashEvaluated |-> FALSE, samplerCalls |-> 0]
      ELSE IF sampleRate.hi < 0 \/ (sampleRate.hi = 0 /\ sampleRate.lo = 0)
      THEN [threw |-> FALSE, value |-> FALSE, hashEvaluated |-> FALSE, samplerCalls |-> 0]
      ELSE [threw |-> FALSE,
            value |-> rateAdmits(normOf(hashLoop(evalResult.id, 1, Limbs(0, 5381))), sampleRate),
            hashEvaluated |-> TRUE, samplerCalls |-> 0]

(***************************************************************************)
(* Content: strings, JSON serialisation, fingerprints, redaction hooks.    *)
(***************************************************************************)

\* attribute keys of ./attributes (ATTR)
ATTR == [MESSAGE_ROLE |-> "gen_ai.message.role",
         MESSAGE_INDEX |-> "gen_ai.message.index",
         MESSAGE_CONTENT |-> "gen_ai.message.content",
         MESSAGE_CONTENT_JSON |-> "gen_ai.message.content_json",
         MESSAGE_CONTENT_TYPE |-> "gen_ai.message.content_type",
         MESSAGE_CONTENT_TRUNCATED |-> "gen_ai.message.content_truncated",
         CONTENT_SHA256 |-> "evalops.content_sha256",
         TOOL_NAME |-> "gen_ai.tool.name",
         TOOL_CALL_ID |-> "gen_ai.tool.call.id",
         TOOL_ARGUMENTS |-> "gen_ai.tool.arguments",
         RESPONSE_CHOICE_INDEX |-> "gen_ai.response.choice.index",
         RESPONSE_FINISH_REASON |-> "gen_ai.response.finish_reason"]

\* JSON.stringify of an object whose values are strings:
\* {"k":"v","k2":"v2"}
RECURSIVE stringifyPairs(_, _)
stringifyPairs(o, i) ==
  IF i > Len(o) THEN <<>>
  ELSE (IF i > 1 THEN <<",">> ELSE <<>>)
       \o <<"\"">> \o o[i].k \o <<"\"", ":", "\"">> \o o[i].v \o <<"\"">>
       \o stringifyPairs(o, i + 1)

\* JSON.stringify(undefined) is undefined
JSONStringify(v) ==
  IF v.t = "object" THEN Str(<<"{">> \o stringifyPairs(v.o, 1) \o <<"}">>)
  ELSE IF v.t = "string" THEN Str(<<"\"">> \o v.s \o <<"\"">>)
  ELSE Undef

\* createHash('sha256').update(content).digest('hex'): the digest is a
\* symbolic term over the hashed string, equal only for equal inputs
hashContent(content) == [sha256 |-> content]

\* The redaction hooks of the model.  "null" returns null, "mask" returns
\* the fixed replacement [R] for any string, "throw" raises.
callHook(hook, content) ==
  CASE hook = "null" -> [threw |-> FALSE, v |-> NullV]
    [] hook = "mask" -> [threw |-> FALSE,
                         v |-> IF content.t = "string" THEN Str(<<"[", "R", "]">>)
                               ELSE content]
    [] hook = "throw" -> [threw |-> TRUE, v |-> Undef]
    [] OTHER -> [threw |-> FALSE, v |-> content]

\* redact: the general hook if configured, else the content itself
redact(cfg, content) ==
  IF cfg.redact # "undefined"
  THEN callHook(cfg.redact, content) @@ [calls |-> 1]
  ELSE [threw |-> FALSE, v |-> content, calls |-> 0]

redactMessageContent(cfg, content, role) ==
  IF cfg.redactMessageContent # "undefined"
  THEN callHook(cfg.redactMessageContent, content) @@ [calls |-> 1]
  ELSE redact(cfg, content)

redactToolArguments(cfg, argsJson, functionName, callId) ==
  IF cfg.redactToolArguments # "undefined"
  THEN callHook(cfg.redactToolArguments, argsJson) @@ [calls |-> 1]
  ELSE redact(cfg, argsJson)

slice(s, max) == SubSeq(s, 1, Min(Len(s), max))

truncateContent(cfg, content) ==
  LET max == cfg.contentMaxLength
  IN  IF max.t = "number" /\ max.n > 0 /\ Len(content) > max.n
      THEN slice(content, max.n)
      ELSE content

\* a value is cut, and marked, as soon as it reaches the maximum length
emittedContent_cutAtLimit(cfg, redacted, key, type) ==
  LET max == cfg.contentMaxLength
      truncated == max.t = "number" /\ max.n > 0 /\ Len(redacted) >= max.n
      val == IF truncated THEN slice(redacted, max.n - 1) ELSE redacted
  IN  (key :> val) @@ (ATTR.MESSAGE_CONTENT_TYPE :> type)
      @@ (IF truncated /\ cfg.markTruncatedContent
          THEN (ATTR.MESSAGE_CONTENT_TRUNCATED :> TRUE) ELSE <<>>)

\* the attributes a redacted (non-null) value contributes to a message or
\* choice event: the value under `key`, its content type, the truncation mark
emittedContent(cfg, redacted, key, type) ==
  LET max == cfg.contentMaxLength
      truncated == max.t = "number" /\ max.n > 0 /\ Len(redacted) > max.n
      val == IF truncated THEN slice(redacted, max.n) ELSE redacted
  IN  (key :> val) @@ (ATTR.MESSAGE_CONTENT_TYPE :> type)
      @@ (IF truncated /\ cfg.markTruncatedContent
          THEN (ATTR.MESSAGE_CONTENT_TRUNCATED :> TRUE) ELSE <<>>)

\* a fingerprint taken of the structured value's first member instead of
\* its serialised form, and of the redaction result for text
messageContent_wrongFingerprint(cfg, content, role) ==
  IF content.t = "undefined"
  THEN [threw |-> FALSE, attributes |-> <<>>, calls |-> 0]
  ELSE LET text == content.t = "string"
           original == IF text THEN content.s ELSE JSONStringify(content).s
           r == redactMessageContent(cfg, Str(original), role)
           key == IF text THEN ATTR.MESSAGE_CONTENT ELSE ATTR.MESSAGE_CONTENT_JSON
       IN  [threw |-> r.threw,
            attributes |->
              IF r.threw THEN <<>>
              ELSE IF r.v.t # "null"
              THEN emittedContent(cfg, r.v.s, key, IF text THEN "text" ELSE "json")
              ELSE (ATTR.CONTENT_SHA256 :> hashContent(IF text THEN <<>> ELSE content.o[1].v)),
            calls |-> r.calls]

\* The content block shared, line for line, by addConversationEvents
\* (message.content) and addChoiceEvents (choice.message.content).
messageContent(cfg, content, role) ==
  IF content.t = "undefined"
  THEN [threw |-> FALSE, attributes |-> <<>>, calls |-> 0]
  ELSE LET text == content.t = "string"
           original == IF text THEN content.s ELSE JSONStringify(content).s
           r == redactMessageContent(cfg, Str(original), role)
           key == IF text THEN ATTR.MESSAGE_CONTENT ELSE ATTR.MESSAGE_CONTENT_JSON
       IN  [threw |-> r.threw,
            attributes |->
              IF r.threw THEN <<>>
              ELSE IF r.v.t # "null"
              THEN emittedContent(cfg, r.v.s, key, IF text THEN "text" ELSE "json")
              ELSE (ATTR.CONTENT_SHA256 :> hashContent(original)),
            calls |-> r.calls]

(***************************************************************************)
(* The event cap.  eventCounts is the WeakMap<Span, number>: a function    *)
(* from the spans that have an entry to their count.                       *)
(***************************************************************************)

\* one counter for the whole converter instead of one per span
canAddEvent_shared(cfg, ec, span) ==
  LET cap == cfg.maxEventsPerSpan
      current == IF 0 \in DOMAIN ec THEN ec[0] ELSE 0
  IN  IF cap.t = "undefined" \/ cap.n <= 0 THEN [ok |-> TRUE, ec |-> ec]
      ELSE IF current >= cap.n THEN [ok |-> FALSE, ec |-> ec]
      ELSE [ok |-> TRUE,
            ec |-> [k \in DOMAIN ec \cup {0} |-> IF k = 0 THEN current + 1 ELSE ec[k]]]

\* a cap compared with > lets one event too many through
canAddEvent_offByOne(cfg, ec, span) ==
  LET cap == cfg.maxEventsPerSpan
      current == IF span \in DOMAIN ec THEN ec[span] ELSE 0
  IN  IF cap.t = "undefined" \/ cap.n <= 0 THEN [ok |-> TRUE, ec |-> ec]
      ELSE IF current > cap.n THEN [ok |-> FALSE, ec |-> ec]
      ELSE [ok |-> TRUE,
            ec |-> [k \in DOMAIN ec \cup {span} |-> IF k = span THEN current + 1 ELSE ec[k]]]

canAddEvent(cfg, ec, span) ==
  LET cap == cfg.maxEventsPerSpan
      current == IF span \in DOMAIN ec THEN ec[span] ELSE 0
  IN  IF cap.t = "undefined" \/ cap.n <= 0 THEN [ok |-> TRUE, ec |-> ec]
      ELSE IF current >= cap.n THEN [ok |-> FALSE, ec |-> ec]
      ELSE [ok |-> TRUE,
            ec |-> [k \in DOMAIN ec \cup {span} |-> IF k = span THEN current + 1 ELSE ec[k]]]

(***************************************************************************)
(* The event loops.  acc is the running state of one convertEvalResult     *)
(* call: the events added to the span so far, the event counters, whether  *)
(* a hook has thrown (the exception then unwinds every loop), and the      *)
(* number of redaction hook invocations.                                   *)
(***************************************************************************)
Event(name, attributes) == [name |-> name, attributes |-> attributes]

addEvent(acc, can, event) ==
  [acc EXCEPT !.ec = can.ec,
              !.events = IF can.ok THEN Append(@, event) ELSE @]

RECURSIVE conversationLoop(_, _, _, _, _)
conversationLoop(cfg, span, messages, i, acc) ==
  IF i > Len(messages) \/ acc.threw THEN acc
  ELSE LET message == messages[i]
           c == messageContent(cfg, message.content, message.role)
           attributes == (ATTR.MESSAGE_ROLE :> message.role)
                         @@ (ATTR.MESSAGE_INDEX :> (i - 1))
                         @@ c.attributes
           counted == [acc EXCEPT !.calls = @ + c.calls]
       IN  IF c.threw THEN [counted EXCEPT !.threw = TRUE]
           ELSE conversationLoop(cfg, span, messages, i + 1,
                  addEvent(counted, canAddEvent(cfg, acc.ec, span),
                           Event(<<"gen_ai", message.role, "message">>, attributes)))

addConversationEvents(cfg, span, evalResult, acc) ==
  IF evalResult.conversation.t = "undefined" THEN acc
  ELSE conversationLoop(cfg, span, evalResult.conversation.messages, 1, acc)

\* a redacted-to-null argument string that falls back to the raw arguments
toolCallEvent_failOpen(cfg, choice, toolCall) ==
  LET rawArgs == IF toolCall.arguments.t = "string" THEN toolCall.arguments
                 ELSE JSONStringify(toolCall.arguments)
      r == redactToolArguments(cfg, rawArgs, toolCall.name, toolCall.id)
  IN  [threw |-> r.threw, calls |-> r.calls,
       event |-> Event(<<"gen_ai", "tool", "message">>,
          (ATTR.TOOL_NAME :> toolCall.name)
          @@ (ATTR.TOOL_CALL_ID :> toolCall.id)
          @@ (ATTR.RESPONSE_CHOICE_INDEX :> choice.index)
          @@ (IF r.threw THEN <<>>
              ELSE (ATTR.TOOL_ARGUMENTS :>
                     truncateContent(cfg, IF r.v.t = "string" THEN r.v.s
                                          ELSE IF rawArgs.t = "string" THEN rawArgs.s
                                          ELSE <<"{", "}">>))))]

\* the gen_ai.tool.message event of one tool call; the redaction result
\* ?? '{}' turns null and undefined into the two-character string {}
toolCallEvent(cfg, choice, toolCall) ==
  LET rawArgs == IF toolCall.arguments.t = "string" THEN toolCall.arguments
                 ELSE JSONStringify(toolCall.arguments)
      r == redactToolArguments(cfg, rawArgs, toolCall.name, toolCall.id)
  IN  [threw |-> r.threw, calls |-> r.calls,
       event |-> Event(<<"gen_ai", "tool", "message">>,
          (ATTR.TOOL_NAME :> toolCall.name)
          @@ (ATTR.TOOL_CALL_ID :> toolCall.id)
          @@ (ATTR.RESPONSE_CHOICE_INDEX :> choice.index)
          @@ (IF r.threw THEN <<>>
              ELSE (ATTR.TOOL_ARGUMENTS :>
                     truncateContent(cfg, IF r.v.t = "string" THEN r.v.s ELSE <<"{", "}">>))))]

\* the redaction hook runs inside the addEvent argument list, so only
\* after canAddEvent has counted the event
RECURSIVE toolCallLoop(_, _, _, _, _, _)
toolCallLoop(cfg, span, choice, toolCalls, j, acc) ==
  IF j > Len(toolCalls) \/ acc.threw THEN acc
  ELSE LET can == canAddEvent(cfg, acc.ec, span)
           e == toolCallEvent(cfg, choice, toolCalls[j])
       IN  IF ~can.ok THEN toolCallLoop(cfg, span, choice, toolCalls, j + 1, acc)
           ELSE IF e.threw
           THEN [acc EXCEPT !.ec = can.ec, !.calls = @ + e.calls, !.threw = TRUE]
           ELSE toolCallLoop(cfg, span, choice, toolCalls, j + 1,
                  addEvent([acc EXCEPT !.calls = @ + e.calls], can, e.event))

\* the gen_ai.assistant.message event that closes one choice, unless a
\* tool-call hook has thrown before it
assistantMessage(cfg, span, attributes, acc) ==
  IF acc.threw THEN acc
  ELSE addEvent(acc, canAddEvent(cfg, acc.ec, span),
                Event(<<"gen_ai", "assistant", "message">>, attributes))

\* the assistant message of a choice added before its tool-call events
RECURSIVE choiceLoop_messageFirst(_, _, _, _, _)
choiceLoop_messageFirst(cfg, span, choices, i, acc) ==
  IF i > Len(choices) \/ acc.threw THEN acc
  ELSE LET choice == choices[i]
           c == messageContent(cfg, choice.message.content, choice.message.role)
           attributes == (ATTR.RESPONSE_CHOICE_INDEX :> choice.index)
                         @@ (ATTR.RESPONSE_FINISH_REASON :> choice.finishReason)
                         @@ (ATTR.MESSAGE_ROLE :> choice.message.role)
                         @@ c.attributes
           counted == [acc EXCEPT !.calls = @ + c.calls]
       IN  IF c.threw THEN [counted EXCEPT !.threw = TRUE]
           ELSE choiceLoop_messageFirst(cfg, span, choices, i + 1,
                  IF choice.message.toolCalls.t = "undefined"
                  THEN assistantMessage(cfg, span, attributes, counted)
                  ELSE toolCallLoop(cfg, span, choice, choice.message.toolCalls.a, 1,
                                    assistantMessage(cfg, span, attributes, counted)))

RECURSIVE choiceLoop(_, _, _, _, _)
choiceLoop(cfg, span, choices, i, acc) ==
  IF i > Len(choices) \/ acc.threw THEN acc
  ELSE LET choice == choices[i]
           c == messageContent(cfg, choice.message.content, choice.message.role)
           attributes == (ATTR.RESPONSE_CHOICE_INDEX :> choice.index)
                         @@ (ATTR.RESPONSE_FINISH_REASON :> choice.finishReason)
                         @@ (ATTR.MESSAGE_ROLE :> choice.message.role)
                         @@ c.attributes
           counted == [acc EXCEPT !.calls = @ + c.calls]
       IN  IF c.threw THEN [counted EXCEPT !.threw = TRUE]
           ELSE choiceLoop(cfg, span, choices, i + 1,
                  assistantMessage(cfg, span, attributes,
                    IF choice.message.toolCalls.t = "undefined" THEN counted
                    ELSE toolCallLoop(cfg, span, choice, choice.message.toolCalls.a,
                                      1, counted)))

addChoiceEvents(cfg, span, evalResult, acc) ==
  IF evalResult.response.choices.t = "undefined" THEN acc
  ELSE choiceLoop(cfg, span, evalResult.response.choices.a, 1, acc)

RECURSIVE agentStepLoop(_, _, _, _, _)
agentStepLoop(cfg, span, steps, i, acc) ==
  IF i > Len(steps) THEN acc
  ELSE agentStepLoop(cfg, span, steps, i + 1,
         addEvent(acc, canAddEvent(cfg, acc.ec, span),
                  Event(<<"gen_ai", "agent", "step">>,
                        ("gen_ai.agent.step.index" :> (i - 1))
                        @@ ("gen_ai.agent.step.name" :> steps[i].name)
                        @@ ("gen_ai.agent.step.status" :> steps[i].status))))

addAgentStepEvents(cfg, span, evalResult, acc) ==
  IF evalResult.agent.t = "undefined" THEN acc
  ELSE IF evalResult.agent.steps.t = "undefined" THEN acc
  ELSE agentStepLoop(cfg, span, evalResult.agent.steps.a, 1, acc)

RECURSIVE ragChunkLoop(_, _, _, _, _)
ragChunkLoop(cfg, span, chunks, i, acc) ==
  IF i > Len(chunks) THEN acc
  ELSE ragChunkLoop(cfg, span, chunks, i + 1,
         addEvent(acc, canAddEvent(cfg, acc.ec, span),
                  Event(<<"gen_ai", "rag", "chunk">>,
                        ("gen_ai.rag.chunk.index" :> (i - 1))
                        @@ ("gen_ai.rag.chunk.id" :> chunks[i].id)
                        @@ ("gen_ai.rag.chunk.source" :> chunks[i].source))))

addRAGChunkEvents(cfg, span, evalResult, acc) ==
  IF evalResult.rag.t = "undefined" THEN acc
  ELSE IF evalResult.rag.chunks.t = "undefined" THEN acc
  ELSE ragChunkLoop(cfg, span, evalResult.rag.chunks.a, 1, acc)

(***************************************************************************)
(* convertEvalResult, recordMetrics, processEvaluation(s).                 *)
(***************************************************************************)

\* a schema in which the model name is optional
EvalResultSchemaParse_optionalModel(evalResult) ==
  \/ evalResult.response.choices.t = "undefined"
  \/ \A i \in 1..Len(evalResult.response.choices.a) :
       LET toolCalls == evalResult.response.choices.a[i].message.toolCalls
       IN  \/ toolCalls.t = "undefined"
           \/ \A j \in 1..Len(toolCalls.a) :
                toolCalls.a[j].arguments.t \in {"undefined", "object"}

\* EvalResultSchema.parse: the required model name must be a string and
\* tool-call arguments, when present, must be an object
EvalResultSchemaParse(evalResult) ==
  /\ evalResult.model.t = "string"
  /\ \/ evalResult.response.choices.t = "undefined"
     \/ \A i \in 1..Len(evalResult.response.choices.a) :
          LET toolCalls == evalResult.response.choices.a[i].message.toolCalls
          IN  \/ toolCalls.t = "undefined"
              \/ \A j \in 1..Len(toolCalls.a) :
                   toolCalls.a[j].arguments.t \in {"undefined", "object"}

\* the outcome of a call that threw before a span was started
NoSpan(evalResult, ec) ==
  [evalResult |-> evalResult, threw |-> TRUE, span |-> 0, events |-> <<>>,
   ended |-> FALSE, exception |-> FALSE, status |-> "UNSET",
   captureContent |-> "none", hashEvaluated |-> FALSE, samplerCalls |-> 0,
   hookCalls |-> 0, ec |-> ec]

\* the event loops run, hooks included, before the gate is looked at, and
\* the events of a suppressed record are dropped afterwards
RECURSIVE addEvents_gateLast(_, _, _, _, _, _)
addEvents_gateLast(cfg, span, evalResult, allowed, k, acc) ==
  IF k > 4 \/ acc.threw THEN (IF allowed THEN acc ELSE [acc EXCEPT !.events = <<>>])
  ELSE addEvents_gateLast(cfg, span, evalResult, allowed, k + 1,
         CASE k = 1 /\ evalResult.conversation.t # "undefined" ->
                addConversationEvents(cfg, span, evalResult, acc)
           [] k = 2 /\ evalResult.response.choices.t # "undefined" ->
                addChoiceEvents(cfg, span, evalResult, acc)
           [] OTHER -> acc)

\* the four guarded calls that add events, in statement order; an
\* exception raised in one of them skips the rest
RECURSIVE addEvents(_, _, _, _, _, _)
addEvents(cfg, span, evalResult, allowed, k, acc) ==
  IF k > 4 \/ acc.threw THEN acc
  ELSE addEvents(cfg, span, evalResult, allowed, k + 1,
         CASE k = 1 /\ evalResult.conversation.t # "undefined" /\ allowed ->
                addConversationEvents(cfg, span, evalResult, acc)
           [] k = 2 /\ evalResult.response.choices.t # "undefined" /\ allowed ->
                addChoiceEvents(cfg, span, evalResult, acc)
           [] k = 3 /\ evalResult.agent.t # "undefined"
                   /\ evalResult.agent.steps.t # "undefined" /\ allowed ->
                addAgentStepEvents(cfg, span, evalResult, acc)
           [] k = 4 /\ evalResult.rag.t # "undefined"
                   /\ evalResult.rag.chunks.t # "undefined" /\ allowed ->
                addRAGChunkEvents(cfg, span, evalResult, acc)
           [] OTHER -> acc)

\* span.end() and the return: reached only when no hook has thrown
spanEnd(decided, captureContent, acc) ==
  [decided EXCEPT
     !.captureContent = IF captureContent THEN "true" ELSE "false",
     !.events = acc.events,
     !.hookCalls = acc.calls,
     !.ec = acc.ec,
     !.threw = acc.threw,
     !.ended = ~acc.threw]

\* convertEvalResult with the span being the next one the tracer hands out
convertEvalResult(cfg, ec, span, evalResult) ==
  IF ~EvalResultSchemaParse(evalResult) THEN NoSpan(evalResult, ec)
  ELSE
    LET started == [NoSpan(evalResult, ec) EXCEPT
                      !.threw = FALSE,
                      !.span = span,
                      !.exception = evalResult.error,
                      !.status = IF evalResult.error THEN "ERROR" ELSE "OK"]
        capture == shouldCaptureContent(cfg, evalResult)
        decided == [started EXCEPT
                      !.threw = capture.threw,
                      !.hashEvaluated = capture.hashEvaluated,
                      !.samplerCalls = capture.samplerCalls]
        emitOps == cfg.emitOperationalMetadata # "false"
    IN  IF capture.threw THEN decided
        ELSE spanEnd(decided, capture.value,
               addEvents(cfg, span, evalResult, capture.value /\ emitOps, 1,
                         [events |-> <<>>, ec |-> ec, threw |-> FALSE, calls |-> 0]))

\* recordMetrics: the histograms that receive a point for the record
recordMetrics(evalResult) ==
  <<"gen_ai.client.operation.duration", "gen_ai.server.request.duration">>
  \o (IF evalResult.agent.t # "undefined" /\ evalResult.agent.steps.t # "undefined"
      THEN <<"gen_ai.agent.total_steps">> ELSE <<>>)

\* metrics recorded before the conversion is attempted
processEvaluation_metricsFirst(cfg, ec, span, evalResult) ==
  convertEvalResult(cfg, ec, span, evalResult) @@ [metrics |-> recordMetrics(evalResult)]

\* processEvaluation: convert, then record metrics; an exception of the
\* converter is logged and re-thrown, so the metrics are skipped
processEvaluation(cfg, ec, span, evalResult) ==
  LET c == convertEvalResult(cfg, ec, span, evalResult)
  IN  c @@ [metrics |-> IF c.threw THEN <<>> ELSE recordMetrics(evalResult)]

\* processEvaluations: forEach over the batch; the first exception ends it
RECURSIVE processEvaluations(_, _, _, _, _, _)
processEvaluations(cfg, ec, spans, evalResults, i, outcomes) ==
  IF i > Len(evalResults) \/ (i > 1 /\ outcomes[i - 1].threw) THEN outcomes
  ELSE processEvaluations(cfg, ec, spans, evalResults, i + 1,
         Append(outcomes,
                processEvaluation(cfg, IF i = 1 THEN ec ELSE outcomes[i - 1].ec,
                                  spans + i, evalResults[i])))

(***************************************************************************)
(* Inputs: evaluation records and converter configurations.                *)
(***************************************************************************)
IdAbc == <<97, 98, 99>>
IdHigh == <<12354, 12354, 12354, 12354>>
Ids == {IdAbc, IdHigh}

Message(i) ==
  [role |-> <<"user", "system", "tool">>[((i - 1) % 3) + 1],
   content |-> CASE i % 3 = 1 -> Str(<<"p", "i", "i">>)
                 [] i % 3 = 2 -> Obj(<<[k |-> <<"a">>, v |-> <<"x", "y">>]>>)
                 [] OTHER -> Undef]

ToolCall(id, name, arguments) == [id |-> id, name |-> name, arguments |-> arguments]

Choice(i) ==
  [index |-> i - 1, finishReason |-> "stop",
   message |->
     IF i % 2 = 1
     THEN [role |-> "assistant", content |-> Str(<<"o", "k", "!">>),
           toolCalls |-> [t |-> "array", a |->
             << ToolCall("t1", "f", Obj(<<[k |-> <<"q">>, v |-> <<"s", "s", "n">>]>>)),
                ToolCall("t2", "g", Undef) >>]]
     ELSE [role |-> "assistant",
           content |-> Obj(<<[k |-> <<"b">>, v |-> <<"z">>]>>),
           toolCalls |-> Undef]]

Step(i) == [name |-> "plan", status |-> "completed"]
Chunk(i) == [id |-> "c", source |-> "kb"]

Conversations ==
  {Undef} \cup {[t |-> "object", messages |-> [i \in 1..n |-> Message(i)]] : n \in 1..MaxMsgs}
ChoiceLists ==
  {Undef} \cup {[t |-> "array", a |-> [i \in 1..n |-> Choice(i)]] : n \in 1..MaxChoices}
Agents ==
  {Undef} \cup {[t |-> "object", steps |-> [t |-> "array", a |-> [i \in 1..n |-> Step(i)]]]
                : n \in 1..MaxSteps}
Rags ==
  {Undef} \cup {[t |-> "object", chunks |-> [t |-> "array", a |-> [i \in 1..n |-> Chunk(i)]]]
                : n \in 1..MaxChunks}

Record(id, e, c, ch, ag, rg) ==
  [id |-> id, model |-> Str(<<"m">>), error |-> e, conversation |-> c,
   response |-> [choices |-> ch], agent |-> ag, rag |-> rg]

\* every shape of record under one id without an error, and every id with
\* and without an error for the records that carry content only
ValidRecords ==
  {Record(IdAbc, FALSE, c, ch, ag, rg)
   : c \in Conversations, ch \in ChoiceLists, ag \in Agents, rg \in Rags}
  \cup
  {Record(id, e, c, ch, Undef, Undef)
   : id \in Ids, e \in BOOLEAN, c \in Conversations, ch \in ChoiceLists}

\* records the schema rejects: no model name; string tool-call arguments
InvalidRecords ==
  {[id |-> IdAbc, model |-> Undef, error |-> FALSE,
    conversation |-> [t |-> "object", messages |-> <<Message(1)>>],
    response |-> [choices |-> Undef], agent |-> Undef, rag |-> Undef],
   [id |-> IdAbc, model |-> Str(<<"m">>), error |-> FALSE, conversation |-> Undef,
    response |-> [choices |-> [t |-> "array", a |->
      <<[index |-> 0, finishReason |-> "stop",
         message |-> [role |-> "assistant", content |-> Undef,
                      toolCalls |-> [t |-> "array", a |->
                        <<ToolCall("t1", "f", Str(<<"{", "}">>))>>]]]>>]],
    agent |-> Undef, rag |-> Undef]}

Records == ValidRecords \cup InvalidRecords

\* the records batches are drawn from: one without content, one with the
\* longest conversation
BatchRecords ==
  {Record(IdAbc, FALSE, c, Undef, Undef, Undef)
   : c \in {Undef, [t |-> "object", messages |-> [i \in 1..MaxMsgs |-> Message(i)]]}}

Batches == UNION {[1..n -> BatchRecords] : n \in 0..MaxBatch}

\* new Eval2Otel(config) / new Eval2OtelConverter(config) with nothing set
DefaultConfig ==
  [captureContent |-> "undefined", contentSampler |-> "undefined",
   sampleContentRate |-> Undef, emitOperationalMetadata |-> "undefined",
   redact |-> "undefined", redactMessageContent |-> "undefined",
   redactToolArguments |-> "undefined", contentMaxLength |-> Undef,
   markTruncatedContent |-> FALSE, maxEventsPerSpan |-> Undef]

Hooks == {"undefined", "null", "mask", "throw"}

\* the values each option ranges over
Options ==
  [captureContent |-> {"undefined", "false", "true"},
   contentSampler |-> {"undefined", "true", "false", "ifError", "throw"},
   sampleContentRate |-> {Undef, RateZero, RateOne, RateHalf},
   emitOperationalMetadata |-> {"undefined", "false"},
   redact |-> Hooks, redactMessageContent |-> Hooks, redactToolArguments |-> Hooks,
   contentMaxLength |-> {Undef} \cup {Num(n) : n \in 0..MaxContentLength},
   markTruncatedContent |-> BOOLEAN,
   maxEventsPerSpan |-> {Undef} \cup {Num(n) : n \in 0..MaxCap}]

\* two options, each with one of its values
OptionPairs ==
  UNION {UNION {{<<g1, w1, g2, w2>> : w1 \in Options[g1], w2 \in Options[g2]}
                : g2 \in DOMAIN Options \ {"captureContent"}}
         : g1 \in DOMAIN Options \ {"captureContent"}}

\* every configuration that sets the capture flag freely and at most two
\* further options to a non-default value
Configs ==
  {[[[DefaultConfig EXCEPT !.captureContent = cc] EXCEPT ![p[1]] = p[2]] EXCEPT ![p[3]] = p[4]]
   : cc \in Options.captureContent, p \in OptionPairs}

\* the inputs of the sampling gate taken on its own
IdAlphabet == {97, 98, 99, 12354}
SampleIds == UNION {[1..n -> IdAlphabet] : n \in 0..MaxIdLen}

RateAbc == Rate(2952, 23691)

SampleRates ==
  {Undef, RateZero, Rate(-1, 0), RateOne, Rate(W16, 1), RateHalf,
   RateAbc, Rate(RateAbc.hi, RateAbc.lo - 1)}

SamplingConfigs ==
  {[[DefaultConfig EXCEPT !.captureContent = "true"] EXCEPT !.sampleContentRate = r]
   : r \in SampleRates}
  \cup
  {[[[DefaultConfig EXCEPT !.captureContent = "true"] EXCEPT !.contentSampler = s]
     EXCEPT !.sampleContentRate = r]
   : s \in Options.contentSampler \ {"undefined"}, r \in {Undef, RateZero, RateHalf}}

(***************************************************************************)
(* Provider payloads.  A request or response is any JavaScript value: an   *)
(* object is a function from property names to values, an array a          *)
(* sequence.  Strings are sequences of symbols; tool-call argument strings *)
(* are spelled character by character because JSON.parse reads them.       *)
(***************************************************************************)
Dict(f) == [t |-> "dict", f |-> f]
Arr(a) == [t |-> "array", a |-> a]
Bool(b) == [t |-> "boolean", b |-> b]

\* v?.k : undefined when v is null or undefined, and for a property the
\* value does not have
get(v, k) == IF v.t = "dict" /\ k \in DOMAIN v.f THEN v.f[k] ELSE Undef

\* v?.[0]
first(v) == IF v.t = "array" /\ Len(v.a) > 0 THEN v.a[1] ELSE Undef

\* ToBoolean
truthy(v) ==
  CASE v.t \in {"undefined", "null"} -> FALSE
    [] v.t = "string" -> v.s # <<>>
    [] v.t = "number" -> v.n # 0
    [] v.t = "boolean" -> v.b
    [] OTHER -> TRUE

isArray(v) == v.t = "array"

\* v.k throws a TypeError exactly for these
nullish(v) == v.t \in {"undefined", "null"}

\* response.content.some(c => c?.type === 'tool_use')
someToolUse(content) ==
  \E i \in DOMAIN content.a : get(content.a[i], "type") = Str(<<"tool_use">>)

\* a detection that looks for the candidates array before the model id
detectProvider_vertexFirst(request, response) ==
  IF get(response, "object") = Str(<<"chat.completion">>)
     \/ truthy(get(response, "system_fingerprint")) THEN "openai-chat"
  ELSE IF /\ isArray(get(response, "choices"))
          /\ truthy(get(get(first(get(response, "choices")), "message"), "tool_calls"))
          /\ get(get(first(get(get(first(get(response, "choices")), "message"),
                                "tool_calls")), "function"), "arguments").t = "string"
  THEN "openai-compatible"
  ELSE IF isArray(get(response, "candidates")) THEN "vertex"
  ELSE IF truthy(get(response, "modelId")) \/ truthy(get(request, "modelId")) THEN "bedrock"
  ELSE IF isArray(get(response, "content")) /\ someToolUse(get(response, "content"))
  THEN "anthropic"
  ELSE IF get(response, "text").t = "string"
          /\ truthy(get(get(response, "meta"), "billed_units")) THEN "cohere"
  ELSE IF /\ truthy(get(get(response, "message"), "role"))
          /\ \/ truthy(get(response, "eval_duration"))
             \/ truthy(get(response, "load_duration"))
             \/ truthy(get(response, "prompt_eval_count"))
  THEN "ollama"
  ELSE "unknown"

\* a detection that reads response.object without the ?. guard and has no
\* fallback tag
detectProvider_unguarded(request, response) ==
  IF nullish(response) THEN "TypeError"
  ELSE IF get(response, "object") = Str(<<"chat.completion">>)
     \/ truthy(get(response, "system_fingerprint")) THEN "openai-chat"
  ELSE IF truthy(get(response, "modelId")) \/ truthy(get(request, "modelId")) THEN "bedrock"
  ELSE IF isArray(get(response, "candidates")) THEN "vertex"
  ELSE "undefined"

detectProvider(request, response) ==
  IF get(response, "object") = Str(<<"chat.completion">>)
     \/ truthy(get(response, "system_fingerprint")) THEN "openai-chat"
  ELSE IF /\ isArray(get(response, "choices"))
          /\ truthy(get(get(first(get(response, "choices")), "message"), "tool_calls"))
          /\ get(get(first(get(get(first(get(response, "choices")), "message"),
                                "tool_calls")), "function"), "arguments").t = "string"
  THEN "openai-compatible"
  ELSE IF truthy(get(response, "modelId")) \/ truthy(get(request, "modelId")) THEN "bedrock"
  ELSE IF isArray(get(response, "candidates")) THEN "vertex"
  ELSE IF isArray(get(response, "content")) /\ someToolUse(get(response, "content"))
  THEN "anthropic"
  ELSE IF get(response, "text").t = "string"
          /\ truthy(get(get(response, "meta"), "billed_units")) THEN "cohere"
  ELSE IF /\ truthy(get(get(response, "message"), "role"))
          /\ \/ truthy(get(response, "eval_duration"))
             \/ truthy(get(response, "load_duration"))
             \/ truthy(get(response, "prompt_eval_count"))
  THEN "ollama"
  ELSE "unknown"

(***************************************************************************)
(* The normalizers.  Each returns [threw, v]: threw when a statement of    *)
(* the function raises (a property read on null or undefined, a method     *)
(* call on a value that lacks it, JSON.parse of malformed text), else v    *)
(* is the record.  The record keeps the fields the claims speak of: id,    *)
(* model, system, request model, choices and usage.                        *)
(***************************************************************************)
Threw == [threw |-> TRUE, v |-> Undef]
Returned(v) == [threw |-> FALSE, v |-> v]

\* a ?? b
orElse(a, b) == IF nullish(a) THEN b ELSE a

\* (a ?? 0) + (b ?? 0) on counts
plus0(a, b) == Num(orElse(a, Num(0)).n + orElse(b, Num(0)).n)

\* index of the quote that closes the string opened at s[i], 0 if none
RECURSIVE closing(_, _)
closing(s, j) == IF j > Len(s) THEN 0 ELSE IF s[j] = "\"" THEN j ELSE closing(s, j + 1)

\* the members "k":"v",... of a JSON object from position i on
RECURSIVE members(_, _, _)
members(s, i, f) ==
  IF i > Len(s) \/ s[i] # "\"" THEN Threw
  ELSE LET k == closing(s, i + 1)
           v == IF k = 0 \/ k + 2 > Len(s) \/ s[k + 1] # ":" \/ s[k + 2] # "\"" THEN 0
                ELSE closing(s, k + 3)
       IN  IF k = 0 \/ v = 0 \/ v + 1 > Len(s) THEN Threw
           ELSE IF s[v + 1] = "}" /\ v + 1 = Len(s)
           THEN Returned(Dict(f @@ (SubSeq(s, i + 1, k - 1) :> Str(SubSeq(s, k + 3, v - 1)))))
           ELSE IF s[v + 1] = ","
           THEN members(s, v + 2, f @@ (SubSeq(s, i + 1, k - 1) :> Str(SubSeq(s, k + 3, v - 1))))
           ELSE Threw

\* JSON.parse(x) for the texts of the model: objects with string members.
\* A non-string argument is first converted to a string: undefined and
\* objects then fail to parse, numbers, booleans and null parse to themselves.
JSONParse(x) ==
  IF x.t \in {"number", "boolean", "null"} THEN Returned(x)
  ELSE IF x.t # "string" THEN Threw
  ELSE IF x.s = <<"{", "}">> THEN Returned(Dict(<<>>))
  ELSE IF Len(x.s) < 2 \/ x.s[1] # "{" THEN Threw
  ELSE members(x.s, 2, <<>>)

\* message.tool_calls?.map(call => ({..., arguments: JSON.parse(call.function.arguments)}))
parsedToolCalls(message) ==
  LET calls == get(message, "tool_calls")
  IN  IF nullish(calls) THEN Returned(Undef)
      ELSE IF ~isArray(calls) THEN Threw
      ELSE IF \E i \in DOMAIN calls.a :
                \/ nullish(calls.a[i])
                \/ nullish(get(calls.a[i], "function"))
                \/ JSONParse(get(get(calls.a[i], "function"), "arguments")).threw
      THEN Threw
      ELSE Returned(Arr([i \in DOMAIN calls.a |->
             [id |-> get(calls.a[i], "id"), type |-> get(calls.a[i], "type"),
              name |-> get(get(calls.a[i], "function"), "name"),
              arguments |-> JSONParse(get(get(calls.a[i], "function"), "arguments")).v]]))

\* response.choices.map(choice => ({...})) of the two OpenAI normalizers
openAIChoices(response) ==
  LET choices == get(response, "choices")
  IN  IF ~isArray(choices) THEN Threw
      ELSE IF \E i \in DOMAIN choices.a :
                \/ nullish(choices.a[i])
                \/ nullish(get(choices.a[i], "message"))
                \/ parsedToolCalls(get(choices.a[i], "message")).threw
      THEN Threw
      ELSE Returned([i \in DOMAIN choices.a |->
             [index |-> get(choices.a[i], "index"),
              finishReason |-> get(choices.a[i], "finish_reason"),
              role |-> get(get(choices.a[i], "message"), "role"),
              content |-> orElse(get(get(choices.a[i], "message"), "content"), Str(<<>>)),
              toolCalls |-> parsedToolCalls(get(choices.a[i], "message")).v]])

Usage(inputTokens, outputTokens, totalTokens) ==
  [inputTokens |-> inputTokens, outputTokens |-> outputTokens, totalTokens |-> totalTokens]

EvalRecord(id, model, system, requestModel, choices, usage, duration) ==
  [id |-> id, model |-> model, system |-> system, request |-> [model |-> requestModel],
   choices |-> choices, usage |-> usage, performance |-> [duration |-> duration]]

\* The normalizers but Ollama's set the duration to (endTime - startTime) /
\* 1000; the times of the model are whole seconds apart.

convertOpenAICompatibleToEval2Otel(request, response, startTime, endTime, nonce) ==
  IF nullish(response) \/ nullish(request) \/ openAIChoices(response).threw
     \/ nullish(get(response, "usage"))
  THEN Threw
  ELSE Returned(EvalRecord(<<"openai-compat", nonce>>, get(response, "model"), "openai",
                           get(request, "model"), openAIChoices(response).v,
                           Usage(get(get(response, "usage"), "prompt_tokens"),
                                 get(get(response, "usage"), "completion_tokens"),
                                 get(get(response, "usage"), "total_tokens")),
                               Num((endTime - startTime) \div 1000)))

\* request.messages?.map(m => Array.isArray(m.content) ...) reads m.content
badMessages(request) ==
  LET messages == get(request, "messages")
  IN  /\ ~nullish(messages)
      /\ \/ ~isArray(messages)
         \/ \E i \in DOMAIN messages.a : nullish(messages.a[i])

convertOpenAIChatToEval2Otel(request, response, startTime, endTime, nonce) ==
  IF nullish(response) \/ nullish(request) \/ badMessages(request)
     \/ openAIChoices(response).threw
  THEN Threw
  ELSE Returned(EvalRecord(<<"openai", nonce>>, get(response, "model"), "openai",
                           get(request, "model"), openAIChoices(response).v,
                           Usage(get(get(response, "usage"), "prompt_tokens"),
                                 get(get(response, "usage"), "completion_tokens"),
                                 get(get(response, "usage"), "total_tokens")),
                               Num((endTime - startTime) \div 1000)))

\* the members of response.content with the given type, in order
RECURSIVE partsOfType(_, _, _)
partsOfType(content, type, i) ==
  IF i > Len(content) THEN <<>>
  ELSE (IF get(content[i], "type") = Str(<<type>>) THEN <<content[i]>> ELSE <<>>)
       \o partsOfType(content, type, i + 1)

convertAnthropicToEval2Otel(request, response, startTime, endTime, nonce) ==
  IF nullish(response) \/ nullish(request) \/ ~isArray(get(response, "content"))
  THEN Threw
  ELSE IF \E i \in DOMAIN get(response, "content").a : nullish(get(response, "content").a[i])
  THEN Threw
  ELSE IF badMessages(request) THEN Threw
  ELSE LET content == get(response, "content").a
           uses == partsOfType(content, "tool_use", 1)
           texts == partsOfType(content, "text", 1)
       IN  Returned(EvalRecord(<<"anthropic", nonce>>, get(response, "model"), "anthropic",
                               get(request, "model"),
                               <<[index |-> Num(0),
                                  finishReason |-> orElse(get(response, "stop_reason"), Str(<<"stop">>)),
                                  role |-> Str(<<"assistant">>),
                                  content |-> [i \in DOMAIN texts |-> get(texts[i], "text")],
                                  toolCalls |-> Arr([i \in DOMAIN uses |->
                                    [id |-> <<"tool", i - 1>>, type |-> Str(<<"function">>),
                                     name |-> get(uses[i], "name"),
                                     arguments |-> get(uses[i], "input")]])]>>,
                               Usage(get(get(response, "usage"), "input_tokens"),
                                     get(get(response, "usage"), "output_tokens"),
                                     get(get(response, "usage"), "total_tokens")),
                               Num((endTime - startTime) \div 1000)))

convertCohereToEval2Otel(request, response, startTime, endTime, nonce) ==
  IF nullish(response) \/ nullish(request) THEN Threw
  ELSE LET billed == orElse(get(get(response, "meta"), "billed_units"), Dict(<<>>))
       IN  Returned(EvalRecord(<<"cohere", nonce>>, get(response, "model"), "cohere",
                               get(request, "model"),
                               <<[index |-> Num(0),
                                  finishReason |-> orElse(get(response, "finish_reason"), Str(<<"stop">>)),
                                  role |-> Str(<<"assistant">>),
                                  content |-> get(response, "text")]>>,
                               Usage(get(billed, "input_tokens"), get(billed, "output_tokens"),
                                     orElse(get(billed, "total_tokens"),
                                            plus0(get(billed, "input_tokens"),
                                                  get(billed, "output_tokens")))),
                               Num((endTime - startTime) \div 1000)))

convertBedrockToEval2Otel(request, response, startTime, endTime, nonce) ==
  IF nullish(response) \/ nullish(request) THEN Threw
  ELSE LET usage == get(response, "usage")
       IN  Returned(EvalRecord(<<"bedrock", nonce>>, get(response, "modelId"), "aws.bedrock",
                               get(request, "modelId"),
                               <<[index |-> Num(0),
                                  finishReason |-> orElse(get(response, "stopReason"), Str(<<"stop">>)),
                                  role |-> Str(<<"assistant">>),
                                  content |-> orElse(get(response, "outputText"), Str(<<>>))]>>,
                               Usage(get(usage, "inputTokens"), get(usage, "outputTokens"),
                                     orElse(get(usage, "totalTokens"),
                                            plus0(get(usage, "inputTokens"),
                                                  get(usage, "outputTokens")))),
                               Num((endTime - startTime) \div 1000)))

\* c.content.parts.map(p => p.text) of one candidate raises
badCandidate(c) ==
  \/ nullish(c)
  \/ nullish(get(c, "content"))
  \/ ~isArray(get(get(c, "content"), "parts"))
  \/ \E j \in DOMAIN get(get(c, "content"), "parts").a :
       nullish(get(get(c, "content"), "parts").a[j])

convertVertexToEval2Otel(request, response, startTime, endTime, nonce) ==
  IF nullish(response) \/ ~isArray(get(response, "candidates")) THEN Threw
  ELSE IF \E i \in DOMAIN get(response, "candidates").a :
            badCandidate(get(response, "candidates").a[i])
  THEN Threw
  ELSE IF nullish(request) THEN Threw
  ELSE LET candidates == get(response, "candidates").a
           usage == get(response, "usageMetadata")
       IN  Returned(EvalRecord(<<"vertex", nonce>>, get(response, "model"), "google.vertex",
                               get(request, "model"),
                               [i \in DOMAIN candidates |->
                                 [index |-> orElse(get(candidates[i], "index"), Num(i - 1)),
                                  finishReason |-> orElse(get(candidates[i], "finishReason"),
                                                          Str(<<"stop">>)),
                                  role |-> get(get(candidates[i], "content"), "role"),
                                  content |-> [j \in DOMAIN get(get(candidates[i], "content"), "parts").a
                                               |-> get(get(get(candidates[i], "content"), "parts").a[j],
                                                       "text")]]],
                               Usage(get(usage, "promptTokenCount"),
                                     get(usage, "candidatesTokenCount"),
                                     get(usage, "totalTokenCount")),
                               Num((endTime - startTime) \div 1000)))

\* response.message.tool_calls?.map(call => call.function.name ...) raises
badOllamaCalls(message) ==
  LET calls == get(message, "tool_calls")
  IN  /\ ~nullish(calls)
      /\ \/ ~isArray(calls)
         \/ \E i \in DOMAIN calls.a :
              nullish(calls.a[i]) \/ nullish(get(calls.a[i], "function"))

convertOllamaToEval2Otel(request, response, startTime, endTime, nonce) ==
  IF nullish(response) \/ nullish(get(response, "message"))
     \/ badOllamaCalls(get(response, "message")) \/ nullish(request)
  THEN Threw
  ELSE LET message == get(response, "message")
           calls == get(message, "tool_calls")
       IN  Returned(EvalRecord(<<"ollama", nonce>>, get(response, "model"), "ollama",
                               get(request, "model"),
                               <<[index |-> Num(0),
                                  finishReason |->
                                    orElse(get(response, "done_reason"),
                                           IF truthy(get(response, "done")) THEN Str(<<"stop">>)
                                           ELSE Str(<<"length">>)),
                                  role |-> get(message, "role"),
                                  content |-> orElse(get(message, "content"), Str(<<>>)),
                                  toolCalls |->
                                    IF nullish(calls) THEN Undef
                                    ELSE Arr([i \in DOMAIN calls.a |->
                                           [id |-> <<"call", i - 1>>, type |-> Str(<<"function">>),
                                            name |-> get(get(calls.a[i], "function"), "name"),
                                            arguments |-> get(get(calls.a[i], "function"),
                                                              "arguments")]])]>>,
                               Usage(get(response, "prompt_eval_count"),
                                     get(response, "eval_count"),
                                     plus0(get(response, "prompt_eval_count"),
                                           get(response, "eval_count"))),
                               IF truthy(get(response, "total_duration"))
                               THEN Num(get(response, "total_duration").n \div 1000000000)
                               ELSE Num(0)))

\* convertProviderToEvalResult: mode is the optional argument, "" when it
\* is not given; without a usable mode the tag is detected, and an unknown
\* pair yields null.  nonce stands for the Date.now() and Math.random()
\* the normalizer builds the record id from.
convertProviderToEvalResult(request, response, startTime, endTime, mode, nonce) ==
  LET m == IF mode # "" /\ mode # "unknown" THEN mode
           ELSE detectProvider(request, response)
  IN  CASE m = "openai-chat" -> convertOpenAIChatToEval2Otel(request, response, startTime, endTime, nonce)
        [] m = "openai-compatible" -> convertOpenAICompatibleToEval2Otel(request, response, startTime, endTime, nonce)
        [] m = "anthropic" -> convertAnthropicToEval2Otel(request, response, startTime, endTime, nonce)
        [] m = "cohere" -> convertCohereToEval2Otel(request, response, startTime, endTime, nonce)
        [] m = "bedrock" -> convertBedrockToEval2Otel(request, response, startTime, endTime, nonce)
        [] m = "vertex" -> convertVertexToEval2Otel(request, response, startTime, endTime, nonce)
        [] m = "ollama" -> convertOllamaToEval2Otel(request, response, startTime, endTime, nonce)
        [] OTHER -> Returned(NullV)

\* EvalResultSchema on a record a normalizer built: model and request.model
\* are strings; a choice has a number as index, strings as finishReason and
\* role, an optional content that is a string or a record, and optional
\* tool calls with string id, type and name and an optional record as
\* arguments; the token counts are optional non-negative numbers; the
\* duration is a positive number.  The record id and timestamp, the
\* contents the Anthropic and Vertex normalizers join and the tool-call ids
\* the Anthropic and Ollama normalizers number are strings and numbers by
\* construction.
EvalResultSchema(r) ==
  /\ r.model.t = "string"
  /\ r.request.model.t = "string"
  /\ \A i \in DOMAIN r.choices :
       LET c == r.choices[i]
       IN  /\ c.index.t = "number"
           /\ c.finishReason.t = "string"
           /\ c.role.t = "string"
           /\ \/ r.system \in {"anthropic", "google.vertex"}
              \/ c.content.t \in {"undefined", "string", "dict"}
           /\ \/ "toolCalls" \notin DOMAIN c
              \/ c.toolCalls.t = "undefined"
              \/ /\ c.toolCalls.t = "array"
                 /\ \A j \in DOMAIN c.toolCalls.a :
                      LET call == c.toolCalls.a[j]
                      IN  /\ r.system = "openai" =>
                               call.id.t = "string" /\ call.type.t = "string"
                          /\ call.name.t = "string"
                          /\ call.arguments.t \in {"undefined", "dict"}
  /\ \A k \in DOMAIN r.usage :
       \/ r.usage[k].t = "undefined"
       \/ r.usage[k].t = "number" /\ r.usage[k].n >= 0
  /\ r.performance.duration.t = "number"
  /\ r.performance.duration.n > 0

(***************************************************************************)
(* Metrics.  An attribute object is the sequence of its entries in         *)
(* insertion order, which is the order Object.keys and Object.entries      *)
(* enumerate string keys in.                                               *)
(***************************************************************************)
Entry(k, v) == [k |-> k, v |-> v]

keysOf(attrs) == {attrs[i].k : i \in DOMAIN attrs}

\* attrs[k] = v: an existing key keeps its position
assign(attrs, k, v) ==
  IF k \in keysOf(attrs)
  THEN [i \in DOMAIN attrs |-> IF attrs[i].k = k THEN Entry(k, v) ELSE attrs[i]]
  ELSE Append(attrs, Entry(k, v))

\* Object.assign(attrs, more) and {...attrs, ...more}
RECURSIVE assignAll(_, _)
assignAll(attrs, more) ==
  IF more = <<>> THEN attrs
  ELSE assignAll(assign(attrs, Head(more).k, Head(more).v), Tail(more))

\* the attribute keys of the model in the order of String.localeCompare
Collation ==
  <<"deployment.environment", "error.type", "eval.metric.name", "eval.metric.type",
    "gen_ai.agent.step.name", "gen_ai.agent.step.status", "gen_ai.operation.name",
    "gen_ai.provider.name", "gen_ai.request.model", "gen_ai.response.model",
    "gen_ai.system", "gen_ai.token.type", "tenant", "zone">>

localeCompare(a, b) ==
  (CHOOSE i \in DOMAIN Collation : Collation[i] = a)
  - (CHOOSE i \in DOMAIN Collation : Collation[i] = b)

\* entries.sort(([a], [b]) => a.localeCompare(b))
RECURSIVE insertSorted(_, _)
insertSorted(sorted, e) ==
  IF sorted = <<>> THEN <<e>>
  ELSE IF localeCompare(e.k, Head(sorted).k) < 0 THEN <<e>> \o sorted
  ELSE <<Head(sorted)>> \o insertSorted(Tail(sorted), e)

RECURSIVE sortEntries(_)
sortEntries(entries) ==
  IF entries = <<>> THEN <<>>
  ELSE insertSorted(sortEntries(SubSeq(entries, 1, Len(entries) - 1)), entries[Len(entries)])

filterMetricAttributes_unsorted(cfg, attrs) ==
  LET allow == cfg.metricAttributeAllowlist
      result == IF ~nullish(allow) /\ Len(allow.a) > 0
                THEN SelectSeq(attrs, LAMBDA e : \E i \in DOMAIN allow.a : allow.a[i] = e.k)
                ELSE attrs
      cap == cfg.maxMetricAttributes
  IN  IF cap.t = "number" /\ cap.n > 0 THEN slice(result, cap.n) ELSE result

filterMetricAttributes_builtinOnly(cfg, attrs) ==
  LET allow == cfg.metricAttributeAllowlist
      result == IF ~nullish(allow) /\ Len(allow.a) > 0
                THEN SelectSeq(attrs, LAMBDA e : \/ \E i \in DOMAIN allow.a : allow.a[i] = e.k
                                                 \/ e.k \in {"eval.metric.name", "eval.metric.type"})
                ELSE attrs
      cap == cfg.maxMetricAttributes
  IN  IF cap.t = "number" /\ cap.n > 0 THEN slice(sortEntries(result), cap.n) ELSE result

filterMetricAttributes(cfg, attrs) ==
  LET allow == cfg.metricAttributeAllowlist
      result == IF ~nullish(allow) /\ Len(allow.a) > 0
                THEN SelectSeq(attrs, LAMBDA e : \E i \in DOMAIN allow.a : allow.a[i] = e.k)
                ELSE attrs
      cap == cfg.maxMetricAttributes
  IN  IF cap.t = "number" /\ cap.n > 0 THEN slice(sortEntries(result), cap.n) ELSE result

\* histogram.record(value, filterMetricAttributes(attrs)): the point, with
\* the attributes it was built from
point(cfg, name, attrs) ==
  [name |-> name, attrs |-> filterMetricAttributes(cfg, attrs), candidates |-> attrs]

\* the systems of the model contain none of the provider names the
\* function looks for except openai
getProviderName(system) ==
  IF ~truthy(system) THEN Undef
  ELSE IF system = Str(<<"openai">>) THEN Str(<<"openai">>)
  ELSE system

\* the metric names of the model: latency is a performance metric, the
\* names of recordEvaluationMetrics are quality metrics, score is custom
getMetricType(name) ==
  IF name \in {"accuracy", "precision", "recall", "f1Score"} THEN "quality"
  ELSE IF name = "latency" THEN "performance"
  ELSE "custom"

RECURSIVE recordCustomMetrics(_, _, _)
recordCustomMetrics(cfg, names, baseAttributes) ==
  IF names = <<>> THEN <<>>
  ELSE <<point(cfg, Head(names),
               assignAll(baseAttributes,
                         <<Entry("eval.metric.name", Str(<<Head(names)>>)),
                           Entry("eval.metric.type", Str(<<getMetricType(Head(names))>>))>>))>>
       \o recordCustomMetrics(cfg, Tail(names), baseAttributes)

\* the RAG quality histograms, one point per score that is not undefined
RECURSIVE ragPoints(_, _, _, _)
ragPoints(cfg, scores, attributes, names) ==
  IF names = <<>> THEN <<>>
  ELSE (IF get(scores, Head(names)) # Undef
        THEN <<point(cfg, Head(names), attributes)>> ELSE <<>>)
       \o ragPoints(cfg, scores, attributes, Tail(names))

\* steps.forEach: a point for every step that has a duration
RECURSIVE stepPoints(_, _, _)
stepPoints(cfg, steps, attributes) ==
  IF steps = <<>> THEN <<>>
  ELSE (IF get(Head(steps), "duration") # Undef
        THEN <<point(cfg, "gen_ai.agent.step.duration",
                     assignAll(attributes,
                               <<Entry("gen_ai.agent.step.name", get(Head(steps), "name")),
                                 Entry("gen_ai.agent.step.status", get(Head(steps), "status"))>>))>>
        ELSE <<>>)
       \o stepPoints(cfg, Tail(steps), attributes)

\* the points of recordMetrics once the attributes of the call are built
recordPoints(cfg, evalResult, options, attributes) ==
  (IF evalResult.usage.inputTokens # Undef
   THEN <<point(cfg, "gen_ai.client.token.usage",
                assign(attributes, "gen_ai.token.type", Str(<<"input">>)))>> ELSE <<>>)
  \o (IF evalResult.usage.outputTokens # Undef
      THEN <<point(cfg, "gen_ai.client.token.usage",
                   assign(attributes, "gen_ai.token.type", Str(<<"output">>)))>> ELSE <<>>)
  \o <<point(cfg, "gen_ai.client.operation.duration", attributes)>>
  \o (IF evalResult.performance.timeToFirstToken # Undef
      THEN <<point(cfg, "gen_ai.server.time_to_first_token", attributes)>> ELSE <<>>)
  \o (IF evalResult.performance.timePerOutputToken # Undef
      THEN <<point(cfg, "gen_ai.server.time_per_output_token", attributes)>> ELSE <<>>)
  \o <<point(cfg, "gen_ai.server.request.duration", attributes)>>
  \o (IF truthy(evalResult.rag) /\ get(evalResult.rag, "documentsRetrieved") # Undef
      THEN <<point(cfg, "gen_ai.rag.documents_retrieved", attributes)>> ELSE <<>>)
  \o (IF truthy(evalResult.rag) /\ truthy(get(evalResult.rag, "metrics"))
      THEN ragPoints(cfg, get(evalResult.rag, "metrics"), attributes,
                     <<"contextPrecision", "contextRecall", "answerRelevance", "faithfulness">>)
      ELSE <<>>)
  \o (IF truthy(evalResult.agent) /\ truthy(get(evalResult.agent, "steps"))
      THEN <<point(cfg, "gen_ai.agent.total_steps", attributes)>>
           \o stepPoints(cfg, get(evalResult.agent, "steps").a, attributes)
      ELSE <<>>)
  \o (IF options.metrics # <<>> THEN recordCustomMetrics(cfg, options.metrics, attributes)
      ELSE <<>>)

\* recordMetrics with the configuration of the metrics object and the
\* options of the call: the points it records, attributes included
recordMetricsWith(cfg, evalResult, options) ==
  LET provider_ == getProviderName(evalResult.system)
      baseAttributes ==
        <<Entry("gen_ai.operation.name", evalResult.operation),
          Entry("gen_ai.system", orElse(evalResult.system, Str(<<"unknown">>))),
          Entry("gen_ai.request.model", evalResult.request.model),
          Entry("gen_ai.response.model", orElse(evalResult.response.model, evalResult.request.model))>>
        \o (IF truthy(provider_) THEN <<Entry("gen_ai.provider.name", provider_)>> ELSE <<>>)
        \o (IF truthy(evalResult.error)
            THEN <<Entry("error.type", get(evalResult.error, "type"))>> ELSE <<>>)
        \o (IF truthy(cfg.environment)
            THEN <<Entry("deployment.environment", cfg.environment)>> ELSE <<>>)
  IN  recordPoints(cfg, evalResult, options, assignAll(baseAttributes, options.attributes))

\* one histogram point per score that is not undefined
recordEvaluationMetrics(cfg, evalResult, names) ==
  [i \in DOMAIN names |->
     point(cfg, names[i],
           <<Entry("gen_ai.operation.name", evalResult.operation),
             Entry("gen_ai.system", orElse(evalResult.system, Str(<<"unknown">>))),
             Entry("gen_ai.request.model", evalResult.request.model)>>)]

\* the payloads of the model: objects that set at most MaxFields of the
\* properties detection and the normalizers read, each to a well-formed or
\* a malformed value, and the values that are no object at all
Extend(D, table) ==
  D \cup UNION {UNION {{d @@ (k :> v) : v \in table[k]} : k \in DOMAIN table \ DOMAIN d}
                : d \in D}

RECURSIVE FieldMaps(_, _)
FieldMaps(table, n) == IF n = 0 THEN {<<>>} ELSE Extend(FieldMaps(table, n - 1), table)

ArgsEmpty == <<"{", "}">>
ArgsPair == <<"{", "\"", "a", "\"", ":", "\"", "b", "\"", "}">>
ArgsCut == <<"{", "\"", "a", "\"", ":">>
ArgsText == <<"o", "o", "p", "s">>

FunctionCall(arguments) ==
  Dict([id |-> Str(<<"t">>), type |-> Str(<<"function">>),
        function |-> Dict([name |-> Str(<<"f">>), arguments |-> arguments])])

ChatChoice(message) ==
  Dict([index |-> Num(0), message |-> message, finish_reason |-> Str(<<"stop">>)])

AssistantMessage == Dict([role |-> Str(<<"assistant">>), content |-> Str(<<"ok">>)])

ToolMessage(arguments) ==
  Dict([role |-> Str(<<"assistant">>), content |-> NullV,
        tool_calls |-> Arr(<<FunctionCall(arguments)>>)])

ResponseFields ==
  [object |-> {Str(<<"chat.completion">>), Str(<<"list">>)},
   system_fingerprint |-> {Str(<<"fp">>), Str(<<>>)},
   choices |-> {Arr(<<>>), Arr(<<ChatChoice(AssistantMessage)>>),
                Arr(<<ChatChoice(ToolMessage(Str(ArgsEmpty)))>>),
                Arr(<<ChatChoice(ToolMessage(Str(ArgsPair))), ChatChoice(AssistantMessage)>>),
                Arr(<<ChatChoice(ToolMessage(Str(ArgsCut)))>>),
                Arr(<<ChatChoice(ToolMessage(Str(ArgsText)))>>),
                Arr(<<ChatChoice(ToolMessage(Dict(<<>>)))>>),
                Arr(<<NullV>>), Str(<<"none">>)},
   modelId |-> {Str(<<"m">>)},
   candidates |-> {Arr(<<>>),
                   Arr(<<Dict([content |-> Dict([role |-> Str(<<"model">>),
                                                 parts |-> Arr(<<Dict([text |-> Str(<<"ok">>)])>>)])])>>),
                   Arr(<<Dict([index |-> Num(1),
                                content |-> Dict([role |-> Str(<<"model">>),
                                                  parts |-> Arr(<<Dict([text |-> Str(<<"b">>)])>>)])]),
                         Dict([content |-> Dict([role |-> Str(<<"model">>),
                                                 parts |-> Arr(<<Dict([text |-> Str(<<"a">>)]),
                                                                 Dict(<<>>)>>)])])>>),
                   Arr(<<Dict(<<>>)>>),
                   Dict(<<>>)},
   content |-> {Str(<<"ok">>),
                Arr(<<Dict([type |-> Str(<<"text">>), text |-> Str(<<"ok">>)])>>),
                Arr(<<Dict([type |-> Str(<<"tool_use">>), name |-> Str(<<"f">>),
                            input |-> Dict(<<>>)])>>),
                Arr(<<Dict([type |-> Str(<<"tool_use">>)]), NullV>>)},
   text |-> {Str(<<"ok">>), Num(1)},
   meta |-> {Dict([billed_units |-> Dict(<<>>)]),
             Dict([billed_units |-> Dict([input_tokens |-> Num(3), output_tokens |-> Num(4)])]),
             Dict([billed_units |-> Dict([input_tokens |-> Num(3), output_tokens |-> Num(4),
                                          total_tokens |-> Num(9)])]),
             NullV},
   message |-> {AssistantMessage, ToolMessage(Dict(<<>>)), Dict(<<>>)},
   eval_duration |-> {Num(5), Num(0)},
   load_duration |-> {Num(1)},
   prompt_eval_count |-> {Num(3)},
   eval_count |-> {Num(4)},
   usage |-> {Dict(<<>>), NullV,
              Dict([prompt_tokens |-> Num(3), completion_tokens |-> Num(4),
                    total_tokens |-> Num(7)]),
              Dict([input_tokens |-> Num(3), output_tokens |-> Num(4)]),
              Dict([inputTokens |-> Num(3)])},
   usageMetadata |-> {Dict(<<>>), Dict([promptTokenCount |-> Num(3)])},
   model |-> {Str(<<"m">>)}]

\* complete responses of the repository's own tests: Ollama without and
\* with total_duration, Cohere, and an OpenAI chat completion
TestPayloads ==
  {Dict([model |-> Str(<<"m">>), message |-> AssistantMessage, done |-> Bool(TRUE),
         eval_duration |-> Num(1)]),
   Dict([model |-> Str(<<"m">>), message |-> AssistantMessage, done |-> Bool(TRUE),
         total_duration |-> Num(1000000000), eval_duration |-> Num(500000000)]),
   Dict([id |-> Str(<<"c">>), model |-> Str(<<"m">>), text |-> Str(<<"ok">>),
         meta |-> Dict([billed_units |-> Dict([input_tokens |-> Num(3),
                                               output_tokens |-> Num(4)])])]),
   Dict([id |-> Str(<<"id">>), object |-> Str(<<"chat.completion">>), model |-> Str(<<"m">>),
         choices |-> Arr(<<ChatChoice(AssistantMessage)>>)])}

Responses ==
  {Undef, NullV, Str(<<"ok">>), Num(1)}
  \cup {Dict(f) : f \in FieldMaps(ResponseFields, MaxFields)}
  \cup TestPayloads

Requests ==
  {Undef, NullV, Dict(<<>>), Dict([model |-> Str(<<"m">>)]), Dict([modelId |-> Str(<<"m">>)]),
   Dict([model |-> Str(<<"m">>),
         messages |-> Arr(<<Dict([role |-> Str(<<"user">>), content |-> Str(<<"hi">>)])>>)])}

(***************************************************************************)
(* The converter as a state machine.  config is fixed at construction;     *)
(* spanCount counts the spans the tracer has handed out; lastCall is the   *)
(* call the host has just made, with one outcome per record it reached.    *)
(***************************************************************************)
NoCall == [op |-> "none", inputs |-> <<>>, outcomes |-> <<>>, threw |-> FALSE]
NoSample == [state |-> "none"]
NoProvider == [state |-> "none"]
NoMetrics == [state |-> "none"]
\* validateWithRetry and runCli have not been called
NotCalled == [state |-> "none"]

\* what the host sees of one record's outcome, next to the record it passed
Observed(o) == [f \in DOMAIN o \ {"ec", "evalResult"} |-> o[f]]

Init ==
  /\ validation = NotCalled
  /\ cli = NotCalled
  /\ config \in Configs
  /\ spanCount = 0
  /\ eventCounts = <<>>
  /\ lastCall = NoCall
  /\ sample = NoSample
  /\ provider = NoProvider
  /\ metrics = NoMetrics

ProcessEvaluation(evalResult) ==
  /\ lastCall.op = "none"
  /\ spanCount < MaxSpans
  /\ \E o \in {processEvaluation(config, eventCounts, spanCount + 1, evalResult)} :
         /\ lastCall' = [op |-> "processEvaluation", inputs |-> <<evalResult>>,
                         outcomes |-> <<Observed(o)>>, threw |-> o.threw]
         /\ eventCounts' = o.ec
         /\ spanCount' = IF o.span = 0 THEN spanCount ELSE spanCount + 1
  /\ UNCHANGED <<config, sample, provider, metrics, validation, cli>>

ProcessEvaluations(evalResults) ==
  /\ lastCall.op = "none"
  /\ spanCount + Len(evalResults) <= MaxSpans
  /\ \E os \in {processEvaluations(config, eventCounts, spanCount, evalResults, 1, <<>>)} :
         /\ lastCall' = [op |-> "processEvaluations", inputs |-> evalResults,
                         outcomes |-> [i \in 1..Len(os) |-> Observed(os[i])],
                         threw |-> os # <<>> /\ os[Len(os)].threw]
         /\ eventCounts' = IF os = <<>> THEN eventCounts ELSE os[Len(os)].ec
         /\ spanCount' = spanCount + Cardinality({i \in 1..Len(os) : os[i].span # 0})
  /\ UNCHANGED <<config, sample, provider, metrics, validation, cli>>

\* the synchronous call has returned (or thrown) to the host
Return ==
  /\ lastCall.op # "none"
  /\ lastCall' = NoCall
  /\ UNCHANGED <<config, spanCount, eventCounts, sample, provider, metrics, validation, cli>>

Next ==
  \/ \E evalResult \in Records : ProcessEvaluation(evalResult)
  \/ \E evalResults \in Batches : ProcessEvaluations(evalResults)
  \/ Return

Spec == Init /\ [][Next]_vars

\* the sampling gate on its own: every id and rate, one decision each
InitSampling ==
  /\ validation = NotCalled
  /\ cli = NotCalled
  /\ config \in SamplingConfigs
  /\ spanCount = 0
  /\ eventCounts = <<>>
  /\ lastCall = NoCall
  /\ sample \in {[state |-> "input", id |-> id, error |-> e, result |-> Undef]
                 : id \in SampleIds, e \in BOOLEAN}
  /\ provider = NoProvider
  /\ metrics = NoMetrics

SampleContent ==
  /\ sample.state = "input"
  /\ sample' = [sample EXCEPT
                  !.state = "done",
                  !.result = shouldCaptureContent(config, [id |-> sample.id, error |-> sample.error])]
  /\ UNCHANGED <<config, spanCount, eventCounts, lastCall, provider, metrics, validation, cli>>

NextSampling == SampleContent

SpecSampling == InitSampling /\ [][NextSampling]_vars

\* the metrics object on its own: it is constructed with a configuration
\* and the host records an evaluation on it; metrics.points are the points
\* of that call.  A call leaves nothing in the object that a later call
\* reads (the custom histograms it caches carry no attributes), so one call
\* per behaviour covers every call.
MaxMetricAttributes == 3

MetricConfigs ==
  [metricAttributeAllowlist :
     {Undef, Arr(<<>>),
      Arr(<<"gen_ai.operation.name", "gen_ai.system", "gen_ai.request.model", "gen_ai.token.type">>),
      Arr(<<"tenant", "eval.metric.name", "gen_ai.system">>)},
   maxMetricAttributes : {Undef, Num(0)} \cup {Num(n) : n \in 1..MaxMetricAttributes},
   environment : {Undef, Str(<<"prod">>)}]

MetricRecords ==
  [operation : {Str(<<"chat">>)},
   system : {Undef, Str(<<"openai">>), Str(<<"ollama">>)},
   request : {[model |-> Str(<<"gpt-4">>)]},
   response : {[model |-> Undef], [model |-> Str(<<"gpt-4o">>)]},
   usage : [inputTokens : {Undef, Num(1)}, outputTokens : {Num(2)}],
   performance : [duration : {Num(1)}, timeToFirstToken : {Num(1)},
                  timePerOutputToken : {Undef}],
   error : {Undef, Dict([type |-> Str(<<"timeout">>)])},
   rag : {Undef, Dict([documentsRetrieved |-> Num(2),
                       metrics |-> Dict([faithfulness |-> Num(1)])])},
   agent : {Undef, Dict([steps |-> Arr(<<Dict([name |-> Str(<<"plan">>),
                                               status |-> Str(<<"completed">>),
                                               duration |-> Num(1)]),
                                         Dict([name |-> Str(<<"act">>),
                                               status |-> Str(<<"completed">>)])>>)])}]

MetricOptions ==
  [attributes : {<<>>, <<Entry("tenant", Str(<<"t1">>))>>,
                 <<Entry("zone", Str(<<"z1">>)), Entry("tenant", Str(<<"t1">>))>>,
                 <<Entry("gen_ai.system", Str(<<"override">>))>>},
   metrics : {<<>>, <<"score", "latency">>}]

InitMetrics ==
  /\ validation = NotCalled
  /\ cli = NotCalled
  /\ config = DefaultConfig
  /\ spanCount = 0
  /\ eventCounts = <<>>
  /\ lastCall = NoCall
  /\ sample = NoSample
  /\ provider = NoProvider
  /\ metrics \in {[state |-> "constructed", config |-> c, points |-> <<>>] : c \in MetricConfigs}

RecordMetrics ==
  /\ metrics.state = "constructed"
  /\ \E evalResult \in MetricRecords, options \in MetricOptions :
       metrics' = [metrics EXCEPT !.state = "recordMetrics",
                                  !.points = recordMetricsWith(metrics.config, evalResult, options)]
  /\ UNCHANGED <<config, spanCount, eventCounts, lastCall, sample, provider, validation, cli>>

RecordEvaluationMetrics ==
  /\ metrics.state = "constructed"
  /\ \E evalResult \in MetricRecords,
        names \in {<<>>, <<"accuracy">>, <<"accuracy", "f1Score">>} :
       metrics' = [metrics EXCEPT !.state = "recordEvaluationMetrics",
                                  !.points = recordEvaluationMetrics(metrics.config, evalResult, names)]
  /\ UNCHANGED <<config, spanCount, eventCounts, lastCall, sample, provider, validation, cli>>

NextMetrics == RecordMetrics \/ RecordEvaluationMetrics

SpecMetrics == InitMetrics /\ [][NextMetrics]_vars

\* provider detection and normalization on their own: the host holds one
\* request/response pair, asks for its provider tag, then normalizes it
InitProviders ==
  /\ validation = NotCalled
  /\ cli = NotCalled
  /\ config = DefaultConfig
  /\ spanCount = 0
  /\ eventCounts = <<>>
  /\ lastCall = NoCall
  /\ sample = NoSample
  /\ metrics = NoMetrics
  /\ provider \in {[state |-> "input", request |-> request, response |-> response,
                    startTime |-> 0, endTime |-> 1000,
                    tag |-> "none", results |-> <<>>]
                   : request \in Requests, response \in Responses}

DetectProvider ==
  /\ provider.state = "input"
  /\ provider' = [provider EXCEPT
                    !.state = "detected",
                    !.tag = detectProvider(provider.request, provider.response)]
  /\ UNCHANGED <<config, spanCount, eventCounts, lastCall, sample, metrics, validation, cli>>

\* the values Date.now() and Math.random() may contribute to a record id
Nonces == {"n1", "n2"}

ConvertProviderToEvalResult ==
  /\ provider.state \in {"detected", "normalized"}
  /\ \E nonce \in Nonces :
       provider' = [provider EXCEPT
                      !.state = IF @ = "detected" THEN "normalized" ELSE "retried",
                      !.results = Append(@, convertProviderToEvalResult(
                                           provider.request, provider.response,
                                           provider.startTime, provider.endTime, "", nonce))]
  /\ UNCHANGED <<config, spanCount, eventCounts, lastCall, sample, metrics, validation, cli>>

NextProviders == DetectProvider \/ ConvertProviderToEvalResult

SpecProviders == InitProviders /\ [][NextProviders]_vars

(***************************************************************************)
(* Eval2OtelValidation.validateWithRetry.  A datum is known by what        *)
(* schema.parse does with it: it returns ("valid"), throws a ZodError      *)
(* ("invalid") or throws another error ("broken").  retryFn is known by    *)
(* what it resolves to after each attempt, or that it rejects.  A ZodError *)
(* is known by the attempt that raised it, 0 standing for undefined.       *)
(***************************************************************************)
MaxRetries == 3

InitValidation ==
  /\ config = DefaultConfig
  /\ spanCount = 0
  /\ eventCounts = <<>>
  /\ lastCall = NoCall
  /\ sample = NoSample
  /\ provider = NoProvider
  /\ metrics = NoMetrics
  /\ cli = NotCalled
  /\ validation \in {[state |-> "constructed", maxRetries |-> n, retryFn |-> f, data |-> d,
                      replies |-> r, attempts |-> 0, lastError |-> 0, tried |-> <<>>]
                     : n \in 0..MaxRetries, f \in BOOLEAN, d \in {"valid", "invalid", "broken"},
                       r \in [1..MaxRetries -> {"valid", "invalid", "broken", "rejects"}]}

\* the call up to the first test of the loop condition
ValidateWithRetry ==
  /\ validation.state = "constructed"
  /\ validation' = [validation EXCEPT !.state = "loop", !.attempts = 0, !.lastError = 0]
  /\ UNCHANGED <<config, spanCount, eventCounts, lastCall, sample, provider, metrics, cli>>

ValidationResult_countsFromZero(success, attempts, errors) ==
  [success |-> success, attempts |-> attempts - 1, errors |-> errors]

\* the value the promise resolves to
ValidationResult(success, attempts, errors) ==
  [success |-> success, attempts |-> attempts, errors |-> errors]

\* one iteration of the loop, up to the next test of its condition
Attempt ==
  /\ validation.state = "loop"
  /\ validation.attempts < validation.maxRetries
  /\ LET attempts == validation.attempts + 1
         tried == Append(validation.tried, validation.data)
     IN  validation' =
           CASE validation.data = "valid" ->
                  [validation EXCEPT !.state = "returned", !.attempts = attempts,
                                     !.tried = tried] @@
                  [result |-> ValidationResult(TRUE, attempts, 0)]
             [] validation.data = "broken" ->
                  [validation EXCEPT !.state = "threw", !.attempts = attempts, !.tried = tried]
             [] OTHER ->
                  IF validation.retryFn /\ attempts < validation.maxRetries
                  THEN IF validation.replies[attempts] = "rejects"
                       THEN [validation EXCEPT !.state = "threw", !.attempts = attempts,
                                               !.tried = tried, !.lastError = attempts]
                       ELSE [validation EXCEPT !.attempts = attempts, !.tried = tried,
                                               !.lastError = attempts,
                                               !.data = validation.replies[attempts]]
                  ELSE [validation EXCEPT !.state = "returned", !.attempts = attempts,
                                          !.tried = tried, !.lastError = attempts] @@
                       [result |-> ValidationResult(FALSE, attempts, attempts)]
  /\ UNCHANGED <<config, spanCount, eventCounts, lastCall, sample, provider, metrics, cli>>

\* the loop condition fails: the failure result after the loop
Exhausted ==
  /\ validation.state = "loop"
  /\ validation.attempts >= validation.maxRetries
  /\ validation' = [validation EXCEPT !.state = "returned"] @@
                   [result |-> ValidationResult(FALSE, validation.attempts,
                                                validation.lastError)]
  /\ UNCHANGED <<config, spanCount, eventCounts, lastCall, sample, provider, metrics, cli>>

NextValidation == ValidateWithRetry \/ Attempt \/ Exhausted

SpecValidation == InitValidation /\ [][NextValidation]_vars

(***************************************************************************)
(* The replay CLI, runCli.  A line of the file is known by what trim and   *)
(* JSON.parse make of it: it is blank, it is not JSON ("malformed"), or it *)
(* is the value it parses to.  --provider and --provider-override are ""   *)
(* when they are not given.                                                *)
(***************************************************************************)
MaxLines == 2

\* (evalResult as any).system = providerOverride, when the option is given
withSystem(args, obj) ==
  IF args.providerOverride = "" THEN Returned(obj)
  ELSE IF obj.t # "dict" THEN Threw
  ELSE Returned(Dict([k \in DOMAIN obj.f \cup {"system"} |->
                        IF k = "system" THEN Str(<<args.providerOverride>>) ELSE obj.f[k]]))

\* the branch taken when the conversion returned null
fallback_always(args, detected, obj) == withSystem(args, obj)

fallback(args, detected, obj) ==
  IF args.providerMode = "" /\ detected = "unknown" /\ args.noFallback THEN Threw
  ELSE withSystem(args, obj)

\* the record the loop body builds from the parsed line; a line without
\* startTime and endTime is given the clock's time and a second after it
buildEvalResult(args, obj, nonce) ==
  IF truthy(obj) /\ obj.t \in {"dict", "array"}
     /\ (truthy(get(obj, "request")) \/ truthy(get(obj, "response")))
  THEN LET detected == detectProvider(get(obj, "request"), get(obj, "response"))
           lower == IF args.providerMode = "OLLAMA" THEN "ollama" ELSE args.providerMode
           mode == IF args.providerMode # "" THEN lower ELSE detected
       IN  IF args.providerMode # "" /\ mode \notin {"openai-chat", "openai-compatible",
                "anthropic", "cohere", "bedrock", "vertex", "ollama"}
           THEN Threw
           ELSE LET converted == convertProviderToEvalResult(get(obj, "request"),
                                   get(obj, "response"), 0, 1000, mode, nonce)
                IN  IF converted.threw \/ converted.v # NullV THEN converted
                    ELSE fallback(args, detected, obj)
  ELSE withSystem(args, obj)

\* EvalResultSchema.parse, the first step of processEvaluation, raises: on
\* a record a normalizer built, or on a parsed line taken as it is
rejected(evalResult) ==
  IF "t" \notin DOMAIN evalResult THEN ~EvalResultSchema(evalResult)
  ELSE ~ /\ evalResult.t = "dict"
         /\ get(evalResult, "id").t = "string"
         /\ get(evalResult, "timestamp").t = "number"
         /\ get(evalResult, "model").t = "string"
         /\ get(evalResult, "system").t \in {"undefined", "string"}
         /\ get(evalResult, "operation") = Str(<<"chat">>)
         /\ get(get(evalResult, "request"), "model").t = "string"
         /\ get(evalResult, "response").t = "dict"
         /\ get(evalResult, "usage").t = "dict"
         /\ get(get(evalResult, "performance"), "duration").t = "number"
         /\ get(get(evalResult, "performance"), "duration").n > 0

handleLine_countsFailures(args, line, nonce) ==
  [failed |-> line.t = "malformed", passed |-> FALSE, counted |-> line.t # "blank", evalResult |-> NullV]

\* one turn of the loop: what the try block does with the line
handleLine(args, line, nonce) ==
  IF line.t = "blank" THEN [failed |-> FALSE, passed |-> FALSE, counted |-> FALSE, evalResult |-> NullV]
  ELSE IF line.t = "malformed" THEN [failed |-> TRUE, passed |-> FALSE, counted |-> FALSE, evalResult |-> NullV]
  ELSE LET built == buildEvalResult(args, line, nonce)
       IN  IF built.threw \/ built.v = NullV THEN [failed |-> TRUE, passed |-> FALSE, counted |-> FALSE, evalResult |-> NullV]
           ELSE IF args.dryRun THEN [failed |-> FALSE, passed |-> FALSE, counted |-> TRUE, evalResult |-> built.v]
           ELSE IF rejected(built.v) THEN [failed |-> TRUE, passed |-> TRUE, counted |-> FALSE, evalResult |-> built.v]
           ELSE [failed |-> FALSE, passed |-> TRUE, counted |-> TRUE, evalResult |-> built.v]

\* the lines of the model: a blank line, a line that is not JSON, null, a
\* record without request, a record that passes the schema, the
\* unrecognised pairs of the CLI tests, a chat completion without choices,
\* and the responses of the helper tests
Lines ==
  LET Payload(id, request, response) ==
        Dict([id |-> Str(<<id>>), request |-> request, response |-> response])
  IN  {[t |-> "blank"], [t |-> "malformed"], NullV, Dict([id |-> Str(<<"r0">>)]),
       Dict([id |-> Str(<<"r1">>), timestamp |-> Num(1), model |-> Str(<<"m">>),
             operation |-> Str(<<"chat">>), request |-> Dict([model |-> Str(<<"m">>)]),
             response |-> Dict(<<>>), usage |-> Dict(<<>>),
             performance |-> Dict([duration |-> Num(1)])]),
       Payload("fb1", Dict([model |-> Str(<<"m">>)]), Dict(<<>>)),
       Payload("st1", Dict([any |-> Str(<<"thing">>)]), Dict([any |-> Str(<<"thing">>)])),
       Payload("co1", Dict([model |-> Str(<<"m">>)]),
               Dict([object |-> Str(<<"chat.completion">>)]))}
      \cup {Payload("p1", Dict([model |-> Str(<<"m">>)]), response) : response \in TestPayloads}

InitCli ==
  /\ config = DefaultConfig
  /\ spanCount = 0
  /\ eventCounts = <<>>
  /\ lastCall = NoCall
  /\ sample = NoSample
  /\ provider = NoProvider
  /\ metrics = NoMetrics
  /\ validation = NotCalled
  /\ cli \in {[state |-> "reading",
               args |-> [providerMode |-> mode, providerOverride |-> override,
                         noFallback |-> noFallback, dryRun |-> dryRun],
               lines |-> lines, results |-> <<>>, count |-> 0, logged |-> 0, reported |-> 0]
              : mode \in {"", "OLLAMA", "unknown-provider"}, override \in {"", "custom"},
                noFallback \in BOOLEAN, dryRun \in BOOLEAN, lines \in UNION {[1..n -> Lines] : n \in 0..MaxLines}}

\* the body of for await (const line of rl)
ReadLine ==
  /\ cli.state = "reading"
  /\ Len(cli.results) < Len(cli.lines)
  /\ \E nonce \in Nonces :
       \E result \in {handleLine(cli.args, cli.lines[Len(cli.results) + 1], nonce)} :
         cli' = [cli EXCEPT !.results = Append(@, result),
                            !.count = IF result.counted THEN @ + 1 ELSE @,
                            !.logged = IF result.failed THEN @ + 1 ELSE @]
  /\ UNCHANGED <<config, spanCount, eventCounts, lastCall, sample, provider, metrics, validation>>

\* the end of the file: shutdown and the report of the count
Close ==
  /\ cli.state = "reading"
  /\ Len(cli.results) = Len(cli.lines)
  /\ cli' = [cli EXCEPT !.state = "done", !.reported = cli.count]
  /\ UNCHANGED <<config, spanCount, eventCounts, lastCall, sample, provider, metrics, validation>>

NextCli == ReadLine \/ Close

SpecCli == InitCli /\ [][NextCli]_vars

(***************************************************************************)
(* Properties.                                                             *)
(***************************************************************************)
Outcome(k) == lastCall.outcomes[k] @@ [evalResult |-> lastCall.inputs[k]]

ContentKeys == {ATTR.MESSAGE_CONTENT, ATTR.MESSAGE_CONTENT_JSON, ATTR.TOOL_ARGUMENTS}

EmitOps == config.emitOperationalMetadata # "false"

\* the hook that applies to message and choice content, and to tool arguments
MessageHook == IF config.redactMessageContent # "undefined" THEN config.redactMessageContent
               ELSE config.redact
ToolHook == IF config.redactToolArguments # "undefined" THEN config.redactToolArguments
            ELSE config.redact

IsMessageEvent(e) == ATTR.MESSAGE_ROLE \in DOMAIN e.attributes
IsToolEvent(e) == ATTR.TOOL_NAME \in DOMAIN e.attributes

\* the content field an event of a conversation message or of a response
\* choice was built from
SourceContent(evalResult, e) ==
  IF ATTR.MESSAGE_INDEX \in DOMAIN e.attributes
  THEN evalResult.conversation.messages[e.attributes[ATTR.MESSAGE_INDEX] + 1].content
  ELSE evalResult.response.choices.a[e.attributes[ATTR.RESPONSE_CHOICE_INDEX] + 1].message.content

\* the tool call an event was built from
SourceToolCall(evalResult, e) ==
  LET toolCalls == evalResult.response.choices.a[e.attributes[ATTR.RESPONSE_CHOICE_INDEX] + 1]
                     .message.toolCalls.a
  IN  CHOOSE tc \in {toolCalls[j] : j \in DOMAIN toolCalls} : tc.id = e.attributes[ATTR.TOOL_CALL_ID]

Serialized(content) == IF content.t = "string" THEN content.s ELSE JSONStringify(content).s

Sum(f) ==
  LET RECURSIVE S(_)
      S(i) == IF i = 0 THEN 0 ELSE f[i] + S(i - 1)
  IN  S(Len(f))

Size(list) == IF list.t = "undefined" THEN 0 ELSE Len(list.a)

\* the number of events a record asks for: one per conversation message,
\* per tool call, per response choice, per agent step and per RAG chunk
RequestedEvents(evalResult) ==
  (IF evalResult.conversation.t = "undefined" THEN 0 ELSE Len(evalResult.conversation.messages))
  + (IF evalResult.response.choices.t = "undefined" THEN 0
     ELSE Sum([i \in 1..Len(evalResult.response.choices.a) |->
                 1 + Size(evalResult.response.choices.a[i].message.toolCalls)]))
  + (IF evalResult.agent.t = "undefined" THEN 0 ELSE Size(evalResult.agent.steps))
  + (IF evalResult.rag.t = "undefined" THEN 0 ELSE Size(evalResult.rag.chunks))

\* C1: with the capture flag off or unset, no span event of any record
\* carries message content, choice content or tool arguments, whatever the
\* sampler, the rate and the redaction hooks are.
C1_CaptureOffEmitsNoContent ==
  config.captureContent # "true" =>
    \A k \in DOMAIN lastCall.outcomes : \A n \in DOMAIN Outcome(k).events :
      DOMAIN Outcome(k).events[n].attributes \cap ContentKeys = {}

C1_Witness ==
  /\ config.captureContent = "undefined"
  /\ config.contentSampler = "true"
  /\ config.redact = "mask"
  /\ lastCall.op = "processEvaluation"
  /\ Outcome(1).ended
  /\ Outcome(1).evalResult.conversation.t = "object"
  /\ Outcome(1).evalResult.response.choices.t = "array"

\* C2: a content field whose redaction hook throws is emitted with a
\* fingerprint and without a content value: every conversation message of
\* a captured record still gets its event, and the event of a message with
\* content carries the fingerprint and no content.
C2_ThrowingHookFailsClosed ==
  \A k \in DOMAIN lastCall.outcomes :
    LET o == Outcome(k)
        conversation == o.evalResult.conversation
    IN  ( /\ o.captureContent = "true" /\ EmitOps
          /\ MessageHook = "throw"
          /\ config.maxEventsPerSpan.t = "undefined"
          /\ conversation.t = "object" )
        => /\ Len(o.events) >= Len(conversation.messages)
           /\ \A i \in DOMAIN conversation.messages :
                conversation.messages[i].content.t # "undefined" =>
                  /\ ATTR.CONTENT_SHA256 \in DOMAIN o.events[i].attributes
                  /\ DOMAIN o.events[i].attributes \cap ContentKeys = {}

\* C3: a hook or sampler that throws on one record of a batch does not
\* stop the batch: every record of a batch of schema-valid records is
\* reached, and every record that did not itself throw has its span ended
\* and its metrics recorded.
C3_BatchSurvivesThrow ==
  ( /\ lastCall.op = "processEvaluations"
    /\ \A i \in DOMAIN lastCall.inputs : EvalResultSchemaParse(lastCall.inputs[i]) )
  => /\ Len(lastCall.outcomes) = Len(lastCall.inputs)
     /\ \A k \in DOMAIN lastCall.outcomes :
          ~Outcome(k).threw => Outcome(k).ended /\ Outcome(k).metrics # <<>>

\* C4: when the hook applied to a conversation message or a response
\* choice returns null, the event of that field has no content value and
\* has the fingerprint of the original value, which for structured
\* content is its serialised form.
C4_NullRedactionFingerprintsMessage ==
  MessageHook = "null" =>
    \A k \in DOMAIN lastCall.outcomes : \A n \in DOMAIN Outcome(k).events :
      LET e == Outcome(k).events[n]
      IN  (IsMessageEvent(e) /\ SourceContent(Outcome(k).evalResult, e).t # "undefined")
          => /\ DOMAIN e.attributes \cap ContentKeys = {}
             /\ ATTR.CONTENT_SHA256 \in DOMAIN e.attributes
             /\ e.attributes[ATTR.CONTENT_SHA256]
                  = [sha256 |-> Serialized(SourceContent(Outcome(k).evalResult, e))]

C4_Witness ==
  /\ config.redactMessageContent = "null"
  /\ \E k \in DOMAIN lastCall.outcomes :
       /\ \E n \in DOMAIN Outcome(k).events :
            /\ Outcome(k).events[n].name = <<"gen_ai", "system", "message">>
            /\ ATTR.CONTENT_SHA256 \in DOMAIN Outcome(k).events[n].attributes
       /\ \E n \in DOMAIN Outcome(k).events :
            /\ Outcome(k).events[n].name = <<"gen_ai", "assistant", "message">>
            /\ ATTR.CONTENT_SHA256 \in DOMAIN Outcome(k).events[n].attributes

\* C5 as claimed: when the hook applied to a tool call's arguments returns
\* null, the tool event has no arguments value and has the fingerprint of
\* the original arguments.
C5_NullRedactionFingerprintsToolArguments ==
  ToolHook = "null" =>
    \A k \in DOMAIN lastCall.outcomes : \A n \in DOMAIN Outcome(k).events :
      LET e == Outcome(k).events[n]
      IN  (IsToolEvent(e) /\ SourceToolCall(Outcome(k).evalResult, e).arguments.t # "undefined")
          => /\ ATTR.TOOL_ARGUMENTS \notin DOMAIN e.attributes
             /\ ATTR.CONTENT_SHA256 \in DOMAIN e.attributes
             /\ e.attributes[ATTR.CONTENT_SHA256]
                  = [sha256 |-> Serialized(SourceToolCall(Outcome(k).evalResult, e).arguments)]

\* C5 as amended: when the hook applied to a tool call's arguments returns
\* null, the tool event carries the placeholder {} as its arguments value,
\* cut to the maximum content length when that is shorter, and no
\* fingerprint; the original arguments are not in the event.
C5_NullRedactionEmitsPlaceholder ==
  ToolHook = "null" =>
    \A k \in DOMAIN lastCall.outcomes : \A n \in DOMAIN Outcome(k).events :
      LET e == Outcome(k).events[n]
          max == config.contentMaxLength
      IN  IsToolEvent(e)
          => /\ ATTR.CONTENT_SHA256 \notin DOMAIN e.attributes
             /\ ATTR.TOOL_ARGUMENTS \in DOMAIN e.attributes
             /\ e.attributes[ATTR.TOOL_ARGUMENTS]
                  = IF max.t = "number" /\ max.n = 1 THEN <<"{">> ELSE <<"{", "}">>

C5_Witness ==
  /\ config.redactToolArguments = "null"
  /\ \E k \in DOMAIN lastCall.outcomes : \E n \in DOMAIN Outcome(k).events :
       LET e == Outcome(k).events[n]
       IN  /\ IsToolEvent(e)
           /\ SourceToolCall(Outcome(k).evalResult, e).arguments.t = "object"
           /\ e.attributes[ATTR.TOOL_ARGUMENTS] = <<"{", "}">>

\* C6: with an event cap K > 0, a record that asks for N events (N as
\* RequestedEvents when its content is captured, 0 otherwise) and whose
\* hooks do not throw gets exactly min(N, K) events.
C6_CapYieldsMinOfRequestedAndCap ==
  \A k \in DOMAIN lastCall.outcomes :
    LET o == Outcome(k)
        cap == config.maxEventsPerSpan
        N == IF o.captureContent = "true" /\ EmitOps THEN RequestedEvents(o.evalResult) ELSE 0
    IN  (o.span # 0 /\ ~o.threw) =>
          Len(o.events) = IF cap.t = "number" /\ cap.n > 0 THEN Min(N, cap.n) ELSE N

C6_Witness ==
  /\ config.maxEventsPerSpan = Num(MaxCap)
  /\ \E k \in DOMAIN lastCall.outcomes :
       /\ Outcome(k).ended
       /\ RequestedEvents(Outcome(k).evalResult) > MaxCap + 1
       /\ Len(Outcome(k).events) = MaxCap

\* C7: the cap is counted per record: whatever was processed before, a
\* record gets the events, and its span the count, that a converter which
\* has processed nothing would give it.
C7_CapIsCountedPerRecord ==
  \A k \in DOMAIN lastCall.outcomes :
    LET o == Outcome(k)
        fresh == convertEvalResult(config, <<>>, o.span, o.evalResult)
    IN  o.span # 0 =>
          /\ o.events = fresh.events
          /\ o.span \in DOMAIN eventCounts => eventCounts[o.span] = fresh.ec[o.span]

C7_Witness ==
  /\ config.maxEventsPerSpan = Num(1)
  /\ spanCount = 2
  /\ 1 \in DOMAIN eventCounts /\ eventCounts[1] = 1
  /\ \E k \in DOMAIN lastCall.outcomes :
       /\ Outcome(k).span = 2
       /\ Len(Outcome(k).events) = 1
       /\ RequestedEvents(Outcome(k).evalResult) > 1

\* h of the claim: starts at 5381, h * 33 + code for each character in
\* order, kept to 32 bits, read unsigned
RECURSIVE Djb2(_, _, _)
Djb2(id, i, h) ==
  IF i > Len(id) THEN h
  ELSE LET l == 33 * h.lo + id[i]
       IN  Djb2(id, i + 1, Limbs((33 * h.hi + (l \div W16)) % W16, l % W16))

RateStrictlyBetween(r) ==
  /\ r.t = "number"
  /\ r.hi < W16
  /\ r.hi > 0 \/ (r.hi = 0 /\ r.lo > 0)

Sampled == sample.state = "done" /\ config.captureContent = "true"

\* C8: with capture on and no custom sampler, rate 1.0 captures every id
\* and rate 0 captures none, and neither evaluates the hash.
C8_RateExtremesDecideWithoutHash ==
  (Sampled /\ config.contentSampler = "undefined") =>
    /\ config.sampleContentRate = RateOne =>
         sample.result.value /\ ~sample.result.hashEvaluated /\ ~sample.result.threw
    /\ config.sampleContentRate = RateZero =>
         ~sample.result.value /\ ~sample.result.hashEvaluated /\ ~sample.result.threw

C8_Witness ==
  /\ Sampled /\ config.contentSampler = "undefined"
  /\ config.sampleContentRate = RateOne
  /\ sample.id = IdHigh
  /\ sample.result.value

\* C9: with capture on, no custom sampler and a rate strictly between 0
\* and 1, content is captured iff h(id) / 2^32 <= rate; the decision
\* depends on id and rate only; h("abc") = 193485963 = 2952 * 2^16 + 23691.
C9_HashDecidesBetweenExtremes ==
  /\ Djb2(IdAbc, 1, Limbs(0, 5381)) = Limbs(2952, 23691)
  /\ (Sampled /\ config.contentSampler = "undefined"
        /\ RateStrictlyBetween(config.sampleContentRate))
     => /\ ~sample.result.threw
        /\ sample.result.value
             <=> LET h == Djb2(sample.id, 1, Limbs(0, 5381))
                     rate == config.sampleContentRate
                 IN  h.hi < rate.hi \/ (h.hi = rate.hi /\ h.lo <= rate.lo)

C9_Witness ==
  /\ Sampled /\ config.contentSampler = "undefined"
  /\ config.sampleContentRate = RateHalf
  /\ sample.id = IdAbc
  /\ sample.result.hashEvaluated
  /\ sample.result.value

\* C10: with capture on and a custom sampler, the sampler is called once
\* with the record and its result is the decision, whatever the rate.
C10_SamplerAloneDecides ==
  (Sampled /\ config.contentSampler \in {"true", "false", "ifError"}) =>
    /\ sample.result.samplerCalls = 1
    /\ ~sample.result.hashEvaluated
    /\ sample.result.value
         <=> \/ config.contentSampler = "true"
             \/ config.contentSampler = "ifError" /\ sample.error

C10_Witness ==
  /\ Sampled /\ config.contentSampler = "ifError"
  /\ config.sampleContentRate = RateZero
  /\ sample.error
  /\ sample.result.value

\* the record holds a field a redaction hook would be given
HasContent(evalResult) ==
  \/ /\ evalResult.conversation.t # "undefined"
     /\ \E i \in DOMAIN evalResult.conversation.messages :
          evalResult.conversation.messages[i].content.t # "undefined"
  \/ evalResult.response.choices.t # "undefined"

\* C11: for a record the record-level gate suppresses (capture off, sampler
\* result false, or hash above the rate), no redaction hook is invoked.
C11_SuppressedRecordCallsNoHook ==
  \A k \in DOMAIN lastCall.outcomes :
    Outcome(k).captureContent = "false" => Outcome(k).hookCalls = 0

C11_Witness ==
  /\ config.captureContent = "true"
  /\ MessageHook # "undefined"
  /\ \E k \in DOMAIN lastCall.outcomes :
       /\ Outcome(k).hashEvaluated
       /\ Outcome(k).captureContent = "false"
       /\ Outcome(k).ended
       /\ HasContent(Outcome(k).evalResult)
       /\ Outcome(k).hookCalls = 0

ProviderModes ==
  {"openai-chat", "openai-compatible", "anthropic", "cohere", "bedrock", "vertex",
   "ollama", "unknown"}

\* the heuristics in the order the specification fixes
HeuristicOrder ==
  <<"openai-chat", "openai-compatible", "bedrock", "vertex", "anthropic", "cohere", "ollama">>

\* what each heuristic asks of the pair
Heuristic(tag, request, response) ==
  CASE tag = "openai-chat" ->
         \/ get(response, "object") = Str(<<"chat.completion">>)
         \/ truthy(get(response, "system_fingerprint"))
    [] tag = "openai-compatible" ->
         /\ isArray(get(response, "choices"))
         /\ Len(get(response, "choices").a) > 0
         /\ LET calls == get(get(get(response, "choices").a[1], "message"), "tool_calls")
            IN  /\ truthy(calls)
                /\ isArray(calls) /\ Len(calls.a) > 0
                /\ get(get(calls.a[1], "function"), "arguments").t = "string"
    [] tag = "bedrock" ->
         truthy(get(response, "modelId")) \/ truthy(get(request, "modelId"))
    [] tag = "vertex" -> isArray(get(response, "candidates"))
    [] tag = "anthropic" ->
         /\ isArray(get(response, "content"))
         /\ \E i \in DOMAIN get(response, "content").a :
              get(get(response, "content").a[i], "type") = Str(<<"tool_use">>)
    [] tag = "cohere" ->
         /\ get(response, "text").t = "string"
         /\ truthy(get(get(response, "meta"), "billed_units"))
    [] tag = "ollama" ->
         /\ truthy(get(get(response, "message"), "role"))
         /\ \E k \in {"eval_duration", "load_duration", "prompt_eval_count"} :
              truthy(get(response, k))

Matching == {i \in DOMAIN HeuristicOrder :
               Heuristic(HeuristicOrder[i], provider.request, provider.response)}

Detected == provider.state \in {"detected", "normalized", "retried"}

\* C12: detection returns the tag of the first heuristic, in the order
\* native chat, OpenAI-compatible, managed cloud, multi-candidate,
\* Anthropic-style, Cohere-style, local inference, that the pair matches.
C12_FirstMatchingHeuristicWins ==
  (Detected /\ Matching # {}) =>
    \E i \in Matching : /\ \A j \in Matching : i <= j
                        /\ provider.tag = HeuristicOrder[i]

C12_Witness ==
  /\ Detected
  /\ truthy(get(provider.response, "modelId"))
  /\ isArray(get(provider.response, "candidates"))
  /\ provider.tag = "bedrock"

\* C13: for every pair, null, undefined and non-object values included,
\* detection returns one of the eight tags, and unknown when no heuristic
\* matches.
C13_DetectionIsTotal ==
  Detected =>
    /\ provider.tag \in ProviderModes
    /\ Matching = {} => provider.tag = "unknown"

C13_Witness ==
  /\ Detected
  /\ provider.response = NullV
  /\ provider.request = Undef
  /\ provider.tag = "unknown"


\* where the provider payloads carry their token counts
TokenCountPaths ==
  {<<"prompt_eval_count">>, <<"eval_count">>,
   <<"usage", "prompt_tokens">>, <<"usage", "completion_tokens">>, <<"usage", "total_tokens">>,
   <<"usage", "input_tokens">>, <<"usage", "output_tokens">>,
   <<"usage", "inputTokens">>, <<"usage", "outputTokens">>, <<"usage", "totalTokens">>,
   <<"usageMetadata", "promptTokenCount">>, <<"usageMetadata", "candidatesTokenCount">>,
   <<"usageMetadata", "totalTokenCount">>,
   <<"meta", "billed_units", "input_tokens">>, <<"meta", "billed_units", "output_tokens">>,
   <<"meta", "billed_units", "total_tokens">>}

RECURSIVE at(_, _)
at(v, path) == IF path = <<>> THEN v ELSE at(get(v, Head(path)), Tail(path))

NoTokenCounts(response) == \A p \in TokenCountPaths : nullish(at(response, p))

\* the calls of the normalizer that returned a record
Normalized == {k \in DOMAIN provider.results :
              ~provider.results[k].threw /\ provider.results[k].v # NullV}

\* C14: when the payload carries no token counts at all, the input, output
\* and total token counts of the normalized record are all absent.
C14_NoCountsStayAbsent ==
  \A k \in Normalized :
    NoTokenCounts(provider.response) =>
      provider.results[k].v.usage = Usage(Undef, Undef, Undef)


\* the response with the arguments of its tool calls replaced by args
withArguments(response, args) ==
  Dict([k \in DOMAIN response.f |->
          IF k = "choices" THEN Arr(<<ChatChoice(ToolMessage(args))>>) ELSE response.f[k]])

\* the response's only tool call has a string as arguments that JSON.parse
\* rejects, and the same payload with the arguments "{}" is normalized
MalformedArguments(request, response) ==
  /\ response.t = "dict"
  /\ \E a \in {ArgsCut, ArgsText} :
       get(response, "choices") = Arr(<<ChatChoice(ToolMessage(Str(a)))>>)
  /\ LET repaired == convertProviderToEvalResult(request, withArguments(response, Str(ArgsEmpty)),
                                                 0, 1000, "", "n1")
     IN  ~repaired.threw /\ repaired.v # NullV

\* C15: when a tool call's arguments are a string that is not valid JSON,
\* normalization raises no error and returns the record with the other
\* fields of the payload and the arguments kept as that string.
C15_MalformedArgumentsKeptOpaque ==
  \A k \in DOMAIN provider.results :
    MalformedArguments(provider.request, provider.response) =>
      LET r == provider.results[k]
          args == get(get(first(get(get(first(get(provider.response, "choices")), "message"),
                                    "tool_calls")), "function"), "arguments")
      IN  /\ ~r.threw
          /\ r.v # NullV
          /\ r.v.choices[1].toolCalls.a[1].arguments = args
          /\ r.v.usage = convertProviderToEvalResult(provider.request,
                           withArguments(provider.response, Str(ArgsEmpty)),
                           provider.startTime, provider.endTime, "", "n1").v.usage


\* C16: for every pair that detection assigns a provider tag, the
\* normalizer of that tag returns a record without throwing.
C16_NormalizationIsTotal ==
  \A k \in DOMAIN provider.results :
    provider.tag # "unknown" =>
      ~provider.results[k].threw /\ provider.results[k].v # NullV

\* C17: normalizing the same request and response twice yields equal
\* records, with the same record id.
C17_NormalizationIsPure ==
  (provider.state = "retried" /\ Normalized = {1, 2}) =>
    /\ provider.results[1].v.id = provider.results[2].v.id
    /\ provider.results[1] = provider.results[2]


\* the keys of the candidate attributes that pass the allowlist, all of
\* them when no allowlist or an empty one is configured
Allowlisted(p) ==
  LET allow == metrics.config.metricAttributeAllowlist
  IN  IF nullish(allow) \/ allow.a = <<>> THEN keysOf(p.candidates)
      ELSE {k \in keysOf(p.candidates) : \E i \in DOMAIN allow.a : allow.a[i] = k}

Capped == metrics.state # "none" /\ metrics.config.maxMetricAttributes.t = "number"
          /\ metrics.config.maxMetricAttributes.n > 0

C19_OnlyAllowlistedKeys ==
  (metrics.state # "none" /\ ~nullish(metrics.config.metricAttributeAllowlist)
     /\ metrics.config.metricAttributeAllowlist.a # <<>>) =>
    \A i \in DOMAIN metrics.points :
      \A k \in keysOf(metrics.points[i].attrs) :
        \E j \in DOMAIN metrics.config.metricAttributeAllowlist.a :
          metrics.config.metricAttributeAllowlist.a[j] = k

\* a custom histogram point whose candidate attributes held keys outside
\* the allowlist, the two the library adds itself included
C19_Witness ==
  /\ metrics.state = "recordMetrics"
  /\ metrics.config.metricAttributeAllowlist = Arr(<<"tenant", "eval.metric.name", "gen_ai.system">>)
  /\ metrics.config.maxMetricAttributes = Undef
  /\ \E i \in DOMAIN metrics.points :
       /\ metrics.points[i].name = "latency"
       /\ "eval.metric.type" \in keysOf(metrics.points[i].candidates)
       /\ keysOf(metrics.points[i].attrs) = {"tenant", "eval.metric.name", "gen_ai.system"}


\* the value the redaction step hands to truncation for an event that
\* carries content: the hook's result for the serialised source field, and
\* the placeholder {} for tool arguments that are absent or that the hook
\* answered with null
RedactedValue(evalResult, e) ==
  IF IsToolEvent(e)
  THEN LET arguments == SourceToolCall(evalResult, e).arguments
           r == callHook(ToolHook, IF arguments.t = "undefined" THEN Undef
                                   ELSE Str(Serialized(arguments))).v
       IN  IF r.t = "string" THEN r.s ELSE <<"{", "}">>
  ELSE callHook(MessageHook, Str(Serialized(SourceContent(evalResult, e)))).v.s

ContentKey(e) == CHOOSE key \in ContentKeys : key \in DOMAIN e.attributes

\* C20: with a maximum content length M > 0, every emitted content value is
\* the first min(length, M) characters of the redacted value; a value of
\* length at most M is emitted unchanged and is not marked as truncated.
C20_ContentIsCutToMaxLength ==
  (config.contentMaxLength.t = "number" /\ config.contentMaxLength.n > 0) =>
    \A k \in DOMAIN lastCall.outcomes : \A n \in DOMAIN Outcome(k).events :
      LET e == Outcome(k).events[n]
          M == config.contentMaxLength.n
      IN  DOMAIN e.attributes \cap ContentKeys # {} =>
            LET redacted == RedactedValue(Outcome(k).evalResult, e)
            IN  /\ e.attributes[ContentKey(e)] = SubSeq(redacted, 1, Min(Len(redacted), M))
                /\ Len(redacted) <= M =>
                     /\ e.attributes[ContentKey(e)] = redacted
                     /\ ATTR.MESSAGE_CONTENT_TRUNCATED \notin DOMAIN e.attributes

\* one call with truncation marks on: a message whose value is longer than
\* the maximum and is cut and marked, and tool arguments of exactly the
\* maximum length that are emitted whole
C20_Witness ==
  /\ config.contentMaxLength = Num(2)
  /\ config.markTruncatedContent
  /\ \E k \in DOMAIN lastCall.outcomes :
       /\ \E n \in DOMAIN Outcome(k).events :
            LET e == Outcome(k).events[n]
            IN  /\ IsMessageEvent(e)
                /\ DOMAIN e.attributes \cap ContentKeys # {}
                /\ Len(RedactedValue(Outcome(k).evalResult, e)) > 2
                /\ Len(e.attributes[ContentKey(e)]) = 2
                /\ ATTR.MESSAGE_CONTENT_TRUNCATED \in DOMAIN e.attributes
       /\ \E n \in DOMAIN Outcome(k).events :
            LET e == Outcome(k).events[n]
            IN  /\ DOMAIN e.attributes \cap ContentKeys # {}
                /\ Len(RedactedValue(Outcome(k).evalResult, e)) = 2
                /\ e.attributes[ContentKey(e)] = RedactedValue(Outcome(k).evalResult, e)


\* C21: an emitted content field of a message, a choice or a tool call
\* carries the truncation mark exactly when its value was shortened and
\* markTruncatedContent is enabled.
C21_MarkIffShortenedAndEnabled ==
  \A k \in DOMAIN lastCall.outcomes : \A n \in DOMAIN Outcome(k).events :
    LET e == Outcome(k).events[n]
    IN  DOMAIN e.attributes \cap ContentKeys # {} =>
          (ATTR.MESSAGE_CONTENT_TRUNCATED \in DOMAIN e.attributes
           <=> /\ Len(e.attributes[ContentKey(e)]) < Len(RedactedValue(Outcome(k).evalResult, e))
               /\ config.markTruncatedContent)


\* C22: a record without the required model name is rejected with an error
\* that reaches the caller of processEvaluation; nothing of it is processed.
C22_MissingModelIsRejected ==
  \A k \in DOMAIN lastCall.outcomes :
    Outcome(k).evalResult.model.t # "string" =>
      /\ Outcome(k).threw
      /\ lastCall.threw
      /\ k = Len(lastCall.outcomes)
      /\ Outcome(k).captureContent = "none"

C22_Witness ==
  /\ lastCall.op = "processEvaluation"
  /\ config.captureContent = "true"
  /\ Outcome(1).evalResult.model = Undef
  /\ Outcome(1).evalResult.conversation.t # "undefined"
  /\ lastCall.threw

\* C28: a record that fails validation starts no span, gets no event and
\* records no metric point.
C28_RejectedRecordLeavesNoTrace ==
  \A k \in DOMAIN lastCall.outcomes :
    ~EvalResultSchemaParse(Outcome(k).evalResult) =>
      /\ Outcome(k).span = 0
      /\ Outcome(k).events = <<>>
      /\ ~Outcome(k).ended
      /\ Outcome(k).metrics = <<>>
      /\ Outcome(k).status = "UNSET"

\* a record rejected for the string arguments of its tool call
C28_Witness ==
  /\ lastCall.op = "processEvaluation"
  /\ Outcome(1).evalResult.model.t = "string"
  /\ ~EvalResultSchemaParse(Outcome(1).evalResult)
  /\ Outcome(1).span = 0
  /\ Outcome(1).metrics = <<>>
  /\ lastCall.threw


\* C26: every span started for a record has been ended when the processing
\* of the record finishes, whether it returns or throws.
C26_StartedSpanIsEnded ==
  \A k \in DOMAIN lastCall.outcomes :
    Outcome(k).span # 0 => Outcome(k).ended


\* what an event is about: a conversation message, a tool call, a choice,
\* an agent step or a RAG chunk, with its position in the record
EventKey(e) ==
  IF "gen_ai.rag.chunk.index" \in DOMAIN e.attributes
  THEN [kind |-> "chunk", i |-> e.attributes["gen_ai.rag.chunk.index"], id |-> ""]
  ELSE IF "gen_ai.agent.step.index" \in DOMAIN e.attributes
  THEN [kind |-> "step", i |-> e.attributes["gen_ai.agent.step.index"], id |-> ""]
  ELSE IF IsToolEvent(e)
  THEN [kind |-> "tool", i |-> e.attributes[ATTR.RESPONSE_CHOICE_INDEX],
        id |-> e.attributes[ATTR.TOOL_CALL_ID]]
  ELSE IF ATTR.MESSAGE_INDEX \in DOMAIN e.attributes
  THEN [kind |-> "message", i |-> e.attributes[ATTR.MESSAGE_INDEX], id |-> ""]
  ELSE [kind |-> "choice", i |-> e.attributes[ATTR.RESPONSE_CHOICE_INDEX], id |-> ""]

RECURSIVE ChoiceOrder(_, _)
ChoiceOrder(choices, i) ==
  IF i > Len(choices) THEN <<>>
  ELSE (IF choices[i].message.toolCalls.t = "undefined" THEN <<>>
        ELSE [j \in DOMAIN choices[i].message.toolCalls.a |->
                [kind |-> "tool", i |-> choices[i].index,
                 id |-> choices[i].message.toolCalls.a[j].id]])
       \o <<[kind |-> "choice", i |-> choices[i].index, id |-> ""]>>
       \o ChoiceOrder(choices, i + 1)

\* the events a record asks for, in the order of the claim
RequestedOrder(evalResult) ==
  (IF evalResult.conversation.t = "undefined" THEN <<>>
   ELSE [i \in DOMAIN evalResult.conversation.messages |->
           [kind |-> "message", i |-> i - 1, id |-> ""]])
  \o (IF evalResult.response.choices.t = "undefined" THEN <<>>
      ELSE ChoiceOrder(evalResult.response.choices.a, 1))
  \o (IF evalResult.agent.t = "undefined" \/ evalResult.agent.steps.t = "undefined" THEN <<>>
      ELSE [i \in DOMAIN evalResult.agent.steps.a |-> [kind |-> "step", i |-> i - 1, id |-> ""]])
  \o (IF evalResult.rag.t = "undefined" \/ evalResult.rag.chunks.t = "undefined" THEN <<>>
      ELSE [i \in DOMAIN evalResult.rag.chunks.a |-> [kind |-> "chunk", i |-> i - 1, id |-> ""]])

\* C27: the events of a record are its conversation messages in list
\* order, then for each choice its tool calls followed by its assistant
\* message, then the agent steps, then the RAG chunks; under an event cap K
\* the events are the first K of that sequence.
C27_EventsAreAPrefixOfTheFixedOrder ==
  \A k \in DOMAIN lastCall.outcomes :
    LET o == Outcome(k)
        cap == config.maxEventsPerSpan
        order == RequestedOrder(o.evalResult)
    IN  (o.span # 0 /\ ~o.threw /\ o.captureContent = "true" /\ EmitOps) =>
          /\ Len(o.events) = IF cap.t = "number" /\ cap.n > 0 THEN Min(Len(order), cap.n)
                             ELSE Len(order)
          /\ \A n \in DOMAIN o.events : EventKey(o.events[n]) = order[n]

\* a cap of two that cuts a record between the two tool calls of its first
\* choice: the message and the first tool call are kept
C27_Witness ==
  /\ config.maxEventsPerSpan = Num(2)
  /\ \E k \in DOMAIN lastCall.outcomes :
       /\ Outcome(k).ended
       /\ Len(Outcome(k).events) = 2
       /\ EventKey(Outcome(k).events[1]).kind = "message"
       /\ EventKey(Outcome(k).events[2]).kind = "tool"
       /\ RequestedOrder(Outcome(k).evalResult)[3].kind = "tool"


\* C23: for a payload whose only provider signal is a candidates array,
\* the record has one choice per candidate, in candidate order, and the
\* index of each choice is the position of its candidate in the array.
C23_OneChoicePerCandidateInOrder ==
  \A k \in Normalized :
    (Matching # {} /\ \A i \in Matching : HeuristicOrder[i] = "vertex") =>
      LET candidates == get(provider.response, "candidates").a
          choices == provider.results[k].v.choices
      IN  /\ Len(choices) = Len(candidates)
          /\ \A i \in DOMAIN choices :
               /\ choices[i].role = get(get(candidates[i], "content"), "role")
               /\ choices[i].index = Num(i - 1)

\* C29: every record a provider normalizer returns satisfies the schema
\* that processEvaluation enforces, a strictly positive duration and
\* tool-call arguments of an accepted type included, so a normalized record
\* is never rejected by validation.
C29_NormalizedRecordPassesTheSchema ==
  \A k \in Normalized : EvalResultSchema(provider.results[k].v)

Unrecognised(line) ==
  /\ line.t = "dict"
  /\ truthy(get(line, "request")) \/ truthy(get(line, "response"))
  /\ detectProvider(get(line, "request"), get(line, "response")) = "unknown"

Fails(args, line) ==
  \/ line.t = "malformed"
  \/ /\ line.t # "blank"
     /\ \/ \A nonce \in Nonces : buildEvalResult(args, line, nonce).threw
        \/ \A nonce \in Nonces : buildEvalResult(args, line, nonce).v = NullV
        \/ ~args.dryRun /\ \A nonce \in Nonces : rejected(buildEvalResult(args, line, nonce).v)

\* C30: a line that fails to parse, to convert or to process is logged and
\* not counted, and the loop goes on: while lines remain the next one is
\* read, at the end every line has been handled, and the reported count is
\* the number of lines that did not fail (blank lines apart).
C30_FailingLineIsSkippedAndNotCounted ==
  /\ \A i \in DOMAIN cli.results :
       Fails(cli.args, cli.lines[i]) => cli.results[i].failed /\ ~cli.results[i].counted
  /\ cli.logged = Cardinality({i \in DOMAIN cli.results : Fails(cli.args, cli.lines[i])})
  /\ cli.state = "reading" => Len(cli.results) <= Len(cli.lines) /\ ENABLED NextCli
  /\ cli.state = "done" =>
       /\ Len(cli.results) = Len(cli.lines)
       /\ cli.reported = Cardinality({i \in DOMAIN cli.lines :
                                        /\ cli.lines[i].t # "blank"
                                        /\ ~Fails(cli.args, cli.lines[i])})

\* the first line is not JSON and is skipped, and the record on the second
\* line is still processed and is the only one counted
C30_Witness ==
  /\ cli.state = "done"
  /\ Len(cli.lines) = 2
  /\ cli.lines[1].t = "malformed"
  /\ cli.results[1].failed
  /\ cli.results[2].passed
  /\ cli.results[2].counted
  /\ cli.reported = 1

====
